---- MODULE Spec2Model ----
(***************************************************************************)
(* The import/normalization engine of minglebot: provider extractors, the  *)
(* attachment materializer, the dedupe/upsert engine, the index builder    *)
(* and the job orchestrator runImport.                                     *)
(*                                                                         *)
(* Representation.  A JavaScript string is a sequence of tokens; a token   *)
(* is one character wherever the code looks at characters or at the        *)
(* length (texts, titles, raw ids).  An optional value (`T | undefined`)   *)
(* is a set with at most one element: None is undefined, Some(v) is v.     *)
(* JSON.stringify leaves out undefined members, so a row read back from an *)
(* NDJSON file is the row that was written, with None for what was left    *)
(* out; `url: null` and `url: undefined` never both occur and are both     *)
(* None.  An ISO timestamp is the number of milliseconds it denotes.       *)
(***************************************************************************)
EXTENDS Integers, Sequences, FiniteSets, TLC

\* Number of import runs started in one behaviour.
MaxJobs == 2
\* Number of filesystem operations that fail in one behaviour.
MaxFaults == 1

None == {}
Some(v) == {v}
Get(o) == CHOOSE v \in o : TRUE

\* ---------------------------------------------------------------- strings

\* String.prototype.trim on a token sequence: leading and trailing blanks go.
RECURSIVE TrimLeft(_)
TrimLeft(s) ==
  IF s # <<>> /\ Head(s) = " " THEN TrimLeft(Tail(s)) ELSE s

RECURSIVE TrimRight(_)
TrimRight(s) ==
  IF s # <<>> /\ s[Len(s)] = " " THEN TrimRight(SubSeq(s, 1, Len(s) - 1)) ELSE s

Trim(s) == TrimRight(TrimLeft(s))

\* `x` used as a condition, x an optional string: defined and not "".
Truthy(o) == o # None /\ Get(o) # <<>>

SafeChars ==
  {"a", "b", "c", "d", "e", "f", "g", "h", "i", "j", "k", "l", "m", "n", "o", "p",
   "q", "r", "s", "t", "u", "v", "w", "x", "y", "z", "A", "B", "C", "D", "E", "F",
   "G", "H", "I", "J", "K", "L", "M", "N", "O", "P", "Q", "R", "S", "T", "U", "V",
   "W", "X", "Y", "Z", "0", "1", "2", "3", "4", "5", "6", "7", "8", "9", "_", "-"}

\* lib/id.ts safe(): every character outside [a-zA-Z0-9_-] becomes "_".
safe(value) ==
  [i \in 1..Len(value) |-> IF value[i] \in SafeChars THEN value[i] ELSE "_"]

\* lib/hash.ts sha256(): an injective digest of the input.
sha256(input) == <<"sha256(">> \o input \o <<")">>

\* lib/id.ts canonicalId(); the 20-character prefix of the digest is kept
\* injective.
canonicalId(prefix, provider, rawId, fallback) ==
  IF Truthy(rawId) /\ Trim(Get(rawId)) # <<>>
  THEN <<"mb_", provider, "_", prefix, "_">> \o safe(Get(rawId))
  ELSE <<"mb_", provider, "_", prefix, "_">>
         \o sha256(IF Truthy(fallback) THEN Get(fallback) ELSE <<"missing">>)

\* providers/common.ts toIsoOrUndefined() on an optional number.  A number of
\* the payload is [n, big]: big says that it is above 1e12, and then it counts
\* n milliseconds; otherwise it counts n seconds.
toIsoOrUndefined(value) ==
  IF value = None THEN None
  ELSE Some(IF Get(value).big THEN Get(value).n ELSE Get(value).n * 1000)

\* lib/time.ts isIsoDateNewer(next, prev).
isIsoDateNewer(next, prev) ==
  IF next = None THEN FALSE
  ELSE IF prev = None THEN TRUE
  ELSE Get(next) > Get(prev)

\* `${createdAt || ""}` in a fallback seed.
TimeText(t) == IF t = None THEN <<>> ELSE <<ToString(Get(t))>>

\* ------------------------------------------------------- core/dedupe.ts

ProvenanceKeys ==
  {"source_job_id", "source_path", "first_seen_job_id", "last_seen_job_id", "seen_in_jobs"}

ZeroStats == [new |-> 0, updated |-> 0, unchanged |-> 0, failed |-> 0]

\* [...new Set(items)]: the first occurrence of every element, in order.
RECURSIVE Unique(_)
Unique(items) ==
  IF items = <<>> THEN <<>>
  ELSE LET init == Unique(SubSeq(items, 1, Len(items) - 1))
           last == items[Len(items)]
       IN IF \E i \in 1..Len(init) : init[i] = last THEN init ELSE Append(init, last)

\* `list || []`.
OrEmpty(list) == IF list = None THEN <<>> ELSE Get(list)

\* withProvenance without its `item.first_seen_job_id ||`: every run stamps
\* itself as the first to have seen the row.
withProvenance_Restamp(item, jobId) ==
  [item EXCEPT
     !.first_seen_job_id = Some(jobId),
     !.last_seen_job_id = Some(jobId),
     !.seen_in_jobs = Some(Unique(OrEmpty(item.seen_in_jobs) \o <<jobId>>))]

\* withProvenance without the spread of item.seen_in_jobs: the job is the
\* only one listed.
withProvenance_SeenOnce(item, jobId) ==
  [item EXCEPT
     !.first_seen_job_id = IF item.first_seen_job_id = None THEN Some(jobId) ELSE @,
     !.last_seen_job_id = Some(jobId),
     !.seen_in_jobs = Some(<<jobId>>)]

withProvenance(item, jobId) ==
  [item EXCEPT
     !.first_seen_job_id = IF item.first_seen_job_id = None THEN Some(jobId) ELSE @,
     !.last_seen_job_id = Some(jobId),
     !.seen_in_jobs = Some(Unique(OrEmpty(item.seen_in_jobs) \o <<jobId>>))]

\* JSON.stringify of the row without its provenance members.  Every row is a
\* spread of the row it replaces, so the members keep their order and two
\* signatures are equal exactly when the remaining members are.
stableSignature(item) ==
  [k \in DOMAIN item \ ProvenanceKeys |-> item[k]]

\* mergeText without the comparison of the lengths: the incoming text
\* replaces the stored one whenever it is not empty.
mergeText_NextWins(prev, next) ==
  IF Truthy(next) THEN next ELSE prev

mergeText(prev, next) ==
  IF ~Truthy(next) THEN prev
  ELSE IF ~Truthy(prev) THEN next
  ELSE IF Len(Get(next)) >= Len(Get(prev)) THEN next ELSE prev

mergeOptional(prev, next) ==
  IF Truthy(next) /\ Trim(Get(next)) # <<>> THEN next ELSE prev

\* mergeArray without the spread of prev: the incoming list is stored.
mergeArray_NextOnly(prev, next) ==
  LET combined == Unique(OrEmpty(next))
  IN IF combined = <<>> THEN None ELSE Some(combined)

mergeArray(prev, next) ==
  LET combined == Unique(OrEmpty(prev) \o OrEmpty(next))
  IN IF combined = <<>> THEN None ELSE Some(combined)

\* `next.created_at || prev.created_at` and the like.
OrElse(a, b) == IF Truthy(a) THEN a ELSE b

mergeCreatedAt(prev, next) ==
  IF isIsoDateNewer(prev, next) THEN prev
  ELSE IF next # None THEN next ELSE prev

\* mergeConversation without the comparison of line 109: the incoming
\* updated_at is stored.
mergeConversation_NextUpdatedAt(prev, next) ==
  [prev EXCEPT
     !.source_job_id = next.source_job_id,
     !.source_path = OrElse(next.source_path, prev.source_path),
     !.title = mergeText(prev.title, next.title),
     !.created_at = mergeCreatedAt(prev.created_at, next.created_at),
     !.updated_at = next.updated_at]

mergeConversation(prev, next) ==
  [prev EXCEPT
     !.source_job_id = next.source_job_id,
     !.source_path = OrElse(next.source_path, prev.source_path),
     !.title = mergeText(prev.title, next.title),
     !.created_at = mergeCreatedAt(prev.created_at, next.created_at),
     !.updated_at = IF isIsoDateNewer(next.updated_at, prev.updated_at)
                    THEN next.updated_at ELSE prev.updated_at]

mergeMessage(prev, next) ==
  [prev EXCEPT
     !.source_job_id = next.source_job_id,
     !.source_path = OrElse(next.source_path, prev.source_path),
     !.provider_message_id = mergeOptional(prev.provider_message_id, next.provider_message_id),
     !.model = mergeOptional(prev.model, next.model),
     !.role = IF next.role # "" THEN next.role ELSE prev.role,
     !.text = LET merged == mergeText(Some(prev.text), Some(next.text))
              IN IF Truthy(merged) THEN Get(merged) ELSE <<>>,
     !.created_at = mergeCreatedAt(prev.created_at, next.created_at),
     !.attachment_ids = mergeArray(prev.attachment_ids, next.attachment_ids)]

mergeAttachment(prev, next) ==
  [prev EXCEPT
     !.source_job_id = next.source_job_id,
     !.source_path = OrElse(next.source_path, prev.source_path),
     !.provider_attachment_id =
        mergeOptional(prev.provider_attachment_id, next.provider_attachment_id),
     !.kind = mergeOptional(prev.kind, next.kind),
     !.mime_type = mergeOptional(prev.mime_type, next.mime_type),
     !.size_bytes = IF next.size_bytes # None THEN next.size_bytes ELSE prev.size_bytes,
     !.storage = IF next.storage # "" THEN next.storage ELSE prev.storage,
     !.blob_sha256 = mergeOptional(prev.blob_sha256, next.blob_sha256),
     !.url = IF next.url # None THEN next.url ELSE prev.url,
     !.status = IF next.status # "" THEN next.status ELSE prev.status,
     !.local_relpath = mergeOptional(prev.local_relpath, next.local_relpath)]

\* The Map `index`: rows in insertion order, one per id.
MapHas(index, id) == \E i \in 1..Len(index) : index[i].id = id

MapGet(index, id) == index[CHOOSE i \in 1..Len(index) : index[i].id = id]

\* An array push in place of Map.set: a row whose id is there is added again.
MapSet_Push(index, row) == Append(index, row)

MapSet(index, row) ==
  IF MapHas(index, row.id)
  THEN [i \in 1..Len(index) |-> IF index[i].id = row.id THEN row ELSE index[i]]
  ELSE Append(index, row)

\* new Map(existing.map((row) => [row.id, row])).
RECURSIVE NewMap(_)
NewMap(rows) ==
  IF rows = <<>> THEN <<>>
  ELSE MapSet(NewMap(SubSeq(rows, 1, Len(rows) - 1)), rows[Len(rows)])

\* The rows the loop skips and counts as failed.
MissingKey(kind, raw) ==
  CASE kind = "conversations" -> raw.id = <<>>
    [] kind = "messages" -> raw.id = <<>> \/ raw.conversation_id = <<>>
    [] kind = "attachments" -> raw.id = <<>> \/ raw.message_id = <<>>

MergeRow(kind, prev, next) ==
  CASE kind = "conversations" -> mergeConversation(prev, next)
    [] kind = "messages" -> mergeMessage(prev, next)
    [] kind = "attachments" -> mergeAttachment(prev, next)

\* The loop body without the test of the keys: every incoming row is merged.
UpsertRow_NoKeyTest(kind, acc, raw, jobId) ==
  LET next == withProvenance(raw, jobId)
  IN IF ~MapHas(acc.rows, next.id)
     THEN [rows |-> MapSet(acc.rows, next),
           stats |-> [acc.stats EXCEPT !.new = @ + 1]]
     ELSE [rows |-> MapSet(acc.rows,
                           withProvenance(MergeRow(kind, MapGet(acc.rows, next.id), next), jobId)),
           stats |-> [acc.stats EXCEPT !.updated = @ + 1]]

\* The loop body without `stats.failed += 1`: a row that lacks a key is
\* passed over and not counted.
UpsertRow_SkipUncounted(kind, acc, raw, jobId) ==
  IF MissingKey(kind, raw)
  THEN acc
  ELSE LET next == withProvenance(raw, jobId)
       IN IF ~MapHas(acc.rows, next.id)
          THEN [rows |-> MapSet(acc.rows, next),
                stats |-> [acc.stats EXCEPT !.new = @ + 1]]
          ELSE LET prev == MapGet(acc.rows, next.id)
                   merged == withProvenance(MergeRow(kind, prev, next), jobId)
               IN [rows |-> MapSet(acc.rows, merged),
                   stats |-> IF stableSignature(prev) = stableSignature(merged)
                             THEN [acc.stats EXCEPT !.unchanged = @ + 1]
                             ELSE [acc.stats EXCEPT !.updated = @ + 1]]

\* One iteration of the loop over the incoming rows.
UpsertRow(kind, acc, raw, jobId) ==
  IF MissingKey(kind, raw)
  THEN [acc EXCEPT !.stats.failed = @ + 1]
  ELSE LET next == withProvenance(raw, jobId)
       IN IF ~MapHas(acc.rows, next.id)
          THEN [rows |-> MapSet(acc.rows, next),
                stats |-> [acc.stats EXCEPT !.new = @ + 1]]
          ELSE LET prev == MapGet(acc.rows, next.id)
                   merged == withProvenance(MergeRow(kind, prev, next), jobId)
               IN [rows |-> MapSet(acc.rows, merged),
                   stats |-> IF stableSignature(prev) = stableSignature(merged)
                             THEN [acc.stats EXCEPT !.unchanged = @ + 1]
                             ELSE [acc.stats EXCEPT !.updated = @ + 1]]

RECURSIVE UpsertLoop(_, _, _, _)
UpsertLoop(kind, acc, incoming, jobId) ==
  IF incoming = <<>> THEN acc
  ELSE UpsertLoop(kind, UpsertRow(kind, acc, Head(incoming), jobId), Tail(incoming), jobId)

\* The Map is built from the existing rows after each of them was stamped
\* with the job.
Upsert_StampAll(kind, existing, incoming, jobId) ==
  UpsertLoop(kind,
             [rows |-> NewMap([i \in 1..Len(existing) |-> withProvenance(existing[i], jobId)]),
              stats |-> ZeroStats],
             incoming, jobId)

Upsert(kind, existing, incoming, jobId) ==
  UpsertLoop(kind, [rows |-> NewMap(existing), stats |-> ZeroStats], incoming, jobId)

upsertConversations(existing, incoming, jobId) ==
  Upsert("conversations", existing, incoming, jobId)

upsertMessages(existing, incoming, jobId) ==
  Upsert("messages", existing, incoming, jobId)

upsertAttachments(existing, incoming, jobId) ==
  Upsert("attachments", existing, incoming, jobId)

\* ---------------------------------------------------- provider extractors
\* A raw export is [conversations, flat]: the conversation objects of the
\* payload, each with its nested messages, and the flat message list (Claude
\* only).  A raw message is [id, conversation_id, role, text, create_time,
\* model, attachments]; a raw attachment is [id, url, path, mime_type].

RECURSIVE Flatten(_)
Flatten(lists) ==
  IF lists = <<>> THEN <<>> ELSE Head(lists) \o Flatten(Tail(lists))

\* `${sourceRelRoot}/${rel}`, sourceRelRoot the raw directory of the job.
SourcePath(provider, jobId) ==
  <<"raw/", provider, "/", ToString(jobId), "/extracted/", "conversations.json">>

\* JSON.stringify(attachment) in the fallback seed of an attachment id.
JsonAttachment(att) ==
  <<"{id:">> \o att.id \o <<",url:">> \o OrEmpty(att.url) \o <<",path:">> \o OrEmpty(att.path)
    \o (IF att.mime_type = None THEN <<>> ELSE <<",mime_type:">> \o Get(att.mime_type))
    \o <<"}">>

NoProvenance == [first_seen_job_id |-> None, last_seen_job_id |-> None, seen_in_jobs |-> None]

ChatGptAttachment(att, messageId, jobId) ==
  LET providerAttachmentId == Trim(att.id)
  IN [id |-> canonicalId("att", "chatgpt",
                         IF providerAttachmentId = <<>> THEN None ELSE Some(providerAttachmentId),
                         Some(messageId \o <<":">> \o JsonAttachment(att))),
      provider |-> "chatgpt",
      provider_attachment_id |->
        IF providerAttachmentId = <<>> THEN None ELSE Some(providerAttachmentId),
      message_id |-> messageId,
      kind |-> Some(<<"attachment">>),
      mime_type |-> att.mime_type,
      size_bytes |-> None,
      storage |-> IF att.url # None THEN "url" ELSE "missing",
      blob_sha256 |-> None,
      url |-> att.url,
      status |-> IF att.url # None THEN "linked" ELSE "missing",
      local_relpath |-> None,
      source_job_id |-> jobId,
      source_path |-> Some(SourcePath("chatgpt", jobId))] @@ NoProvenance

ChatGptMessageId(providerConversationId, msg) ==
  canonicalId("msg", "chatgpt", Some(Trim(msg.id)),
              Some(providerConversationId
                     \o <<":", IF msg.role = "" THEN "unknown" ELSE msg.role, ":">>
                     \o msg.text \o <<":">> \o TimeText(toIsoOrUndefined(msg.create_time))))

AttachmentsOf(rawAttachments, messageId, jobId) ==
  [i \in 1..Len(rawAttachments) |-> ChatGptAttachment(rawAttachments[i], messageId, jobId)]

ChatGptMessageAttachments(providerConversationId, msg, jobId) ==
  AttachmentsOf(msg.attachments, ChatGptMessageId(providerConversationId, msg), jobId)

IdsOf(rows) == [i \in 1..Len(rows) |-> rows[i].id]

ChatGptMessage(providerConversationId, conversationId, msg, jobId) ==
  [id |-> ChatGptMessageId(providerConversationId, msg),
   conversation_id |-> conversationId,
   provider |-> "chatgpt",
   provider_message_id |-> Some(Trim(msg.id)),
   model |-> None,
   role |-> IF msg.role = "" THEN "unknown" ELSE msg.role,
   text |-> msg.text,
   created_at |-> toIsoOrUndefined(msg.create_time),
   attachment_ids |-> Some(IdsOf(ChatGptMessageAttachments(providerConversationId, msg, jobId))),
   source_job_id |-> jobId,
   source_path |-> Some(SourcePath("chatgpt", jobId))] @@ NoProvenance

ChatGptConversation(conv, jobId) ==
  [id |-> canonicalId("cnv", "chatgpt", Some(Trim(conv.id)), Some(Trim(conv.id))),
   provider |-> "chatgpt",
   provider_conversation_id |-> Trim(conv.id),
   title |-> conv.title,
   created_at |-> toIsoOrUndefined(conv.create_time),
   updated_at |-> toIsoOrUndefined(conv.update_time),
   source_job_id |-> jobId,
   source_path |-> Some(SourcePath("chatgpt", jobId))] @@ NoProvenance

\* The messages of the mapping nodes that carry a message id.
ChatGptNodes(conv) == SelectSeq(conv.messages, LAMBDA msg : Trim(msg.id) # <<>>)

\* parseChatGPT without lines 158-163.
ChatGptResult_NoWarnings(conversations, messages, attachments) ==
  [threw |-> FALSE, message |-> "", conversations |-> conversations, messages |-> messages,
   attachments |-> attachments, warnings |-> <<>>]

ChatGptResult(conversations, messages, attachments) ==
  [threw |-> FALSE, message |-> "",
   conversations |-> conversations,
   messages |-> messages,
   attachments |-> attachments,
   warnings |->
     (IF conversations = <<>>
      THEN <<"No conversations parsed from ChatGPT export payload.">> ELSE <<>>)
     \o (IF messages = <<>>
         THEN <<"No messages parsed from ChatGPT export payload.">> ELSE <<>>)]

\* The rows of the target document that carry a conversation id.
ChatGptRows(export) == SelectSeq(export.conversations, LAMBDA conv : Trim(conv.id) # <<>>)

ChatGptParseRows(rows, jobId) ==
  ChatGptResult(
    [i \in 1..Len(rows) |-> ChatGptConversation(rows[i], jobId)],
    Flatten([i \in 1..Len(rows) |->
               [k \in 1..Len(ChatGptNodes(rows[i])) |->
                  ChatGptMessage(Trim(rows[i].id),
                                 canonicalId("cnv", "chatgpt", Some(Trim(rows[i].id)),
                                             Some(Trim(rows[i].id))),
                                 ChatGptNodes(rows[i])[k], jobId)]]),
    Flatten([i \in 1..Len(rows) |->
               Flatten([k \in 1..Len(ChatGptNodes(rows[i])) |->
                          ChatGptMessageAttachments(Trim(rows[i].id),
                                                    ChatGptNodes(rows[i])[k], jobId)])]))

parseChatGPT(docs, jobId) ==
  IF docs = None
  THEN [threw |-> TRUE,
        message |-> "ChatGPT parser could not find a usable conversations JSON file.",
        conversations |-> <<>>, messages |-> <<>>, attachments |-> <<>>, warnings |-> <<>>]
  ELSE ChatGptParseRows(ChatGptRows(Get(docs)), jobId)

\* providers/claude.ts

attachmentFromObject(messageId, jobId, rawAttachment) ==
  LET providerAttachmentId == Trim(rawAttachment.id)
      localRel == IF Truthy(rawAttachment.path) THEN rawAttachment.path ELSE None
      url == rawAttachment.url
  IN [id |-> canonicalId("att", "claude",
                         IF providerAttachmentId = <<>> THEN None ELSE Some(providerAttachmentId),
                         Some(messageId \o <<":">> \o JsonAttachment(rawAttachment))),
      provider |-> "claude",
      provider_attachment_id |->
        IF providerAttachmentId = <<>> THEN None ELSE Some(providerAttachmentId),
      message_id |-> messageId,
      kind |-> Some(<<"attachment">>),
      mime_type |-> rawAttachment.mime_type,
      size_bytes |-> None,
      storage |-> IF localRel # None THEN "blob" ELSE IF Truthy(url) THEN "url" ELSE "missing",
      blob_sha256 |-> None,
      url |-> url,
      status |-> IF localRel # None THEN "embedded"
                 ELSE IF Truthy(url) THEN "linked" ELSE "missing",
      local_relpath |-> localRel,
      source_job_id |-> jobId,
      source_path |-> Some(SourcePath("claude", jobId))] @@ NoProvenance

attachmentsFromMessage(message, messageId, jobId) ==
  [i \in 1..Len(message.attachments) |->
     attachmentFromObject(messageId, jobId, message.attachments[i])]

\* The attachments that are not in the Map yet are added, in order.
RECURSIVE AddMissing(_, _)
AddMissing(index, rows) ==
  IF rows = <<>> THEN index
  ELSE AddMissing(IF MapHas(index, Head(rows).id) THEN index ELSE MapSet(index, Head(rows)),
                  Tail(rows))

\* Lines 292-311 when a message whose id is in the Map is left as it is.
MergeIntoMaps_KeepFirst(acc, nextMessage, attachmentsFromCurrent) ==
  [messages |->
     IF ~MapHas(acc.messages, nextMessage.id)
     THEN MapSet(acc.messages, nextMessage)
     ELSE acc.messages,
   attachments |-> AddMissing(acc.attachments, attachmentsFromCurrent)]

\* Lines 292-311: the message joins the Map or is merged with the one of the
\* same id; acc is [messages, attachments], the two Maps of parseClaude.
MergeIntoMaps(acc, nextMessage, attachmentsFromCurrent) ==
  [messages |->
     IF ~MapHas(acc.messages, nextMessage.id)
     THEN MapSet(acc.messages, nextMessage)
     ELSE MapSet(acc.messages,
                 [MapGet(acc.messages, nextMessage.id) EXCEPT
                    !.text = IF Len(nextMessage.text) >= Len(@) THEN nextMessage.text ELSE @,
                    !.model = OrElse(nextMessage.model, @),
                    !.role = nextMessage.role,
                    !.created_at = IF nextMessage.created_at # None
                                   THEN nextMessage.created_at ELSE @,
                    !.attachment_ids =
                      Some(Unique(OrEmpty(@) \o IdsOf(attachmentsFromCurrent)))]),
   attachments |-> AddMissing(acc.attachments, attachmentsFromCurrent)]

ClaudeMessage(conversationId, msg, messageId, attachmentIds, jobId) ==
  [id |-> messageId,
   conversation_id |-> conversationId,
   provider |-> "claude",
   provider_message_id |-> IF Trim(msg.id) = <<>> THEN None ELSE Some(Trim(msg.id)),
   model |-> IF Truthy(msg.model) /\ Trim(Get(msg.model)) # <<>>
             THEN Some(Trim(Get(msg.model))) ELSE None,
   role |-> IF msg.role = "" THEN "unknown" ELSE msg.role,
   text |-> msg.text,
   created_at |-> toIsoOrUndefined(msg.create_time),
   attachment_ids |-> Some(attachmentIds),
   source_job_id |-> jobId,
   source_path |-> Some(SourcePath("claude", jobId))] @@ NoProvenance

ClaudeMessageId(providerConversationId, msg) ==
  canonicalId("msg", "claude",
              IF Trim(msg.id) = <<>> THEN None ELSE Some(Trim(msg.id)),
              Some(providerConversationId
                     \o <<":", IF msg.role = "" THEN "unknown" ELSE msg.role, ":">>
                     \o msg.text \o <<":">> \o TimeText(toIsoOrUndefined(msg.create_time))))

MessageWithAttachments(acc, conversationId, msg, attachmentsFromCurrent, jobId) ==
  MergeIntoMaps(acc,
                ClaudeMessage(conversationId, msg, msg.message_id,
                              IdsOf(attachmentsFromCurrent), jobId),
                attachmentsFromCurrent)

upsertMessageAndAttachments(acc, providerConversationId, conversationId, msg, jobId) ==
  IF Trim(msg.id) = <<>> /\ msg.text = <<>> THEN acc
  ELSE MessageWithAttachments(
         acc, conversationId,
         [message_id |-> ClaudeMessageId(providerConversationId, msg)] @@ msg,
         attachmentsFromMessage(msg, ClaudeMessageId(providerConversationId, msg), jobId),
         jobId)

RECURSIVE ClaudeMessages(_, _, _, _, _)
ClaudeMessages(acc, providerConversationId, conversationId, msgs, jobId) ==
  IF msgs = <<>> THEN acc
  ELSE ClaudeMessages(
         upsertMessageAndAttachments(acc, providerConversationId, conversationId,
                                     Head(msgs), jobId),
         providerConversationId, conversationId, Tail(msgs), jobId)

\* candidateFlatMessagesFromDoc: the flat rows that name their conversation.
candidateFlatMessages(export) ==
  SelectSeq(export.flat, LAMBDA msg : Trim(msg.conversation_id) # <<>>)

FlatOf(export, providerConversationId) ==
  SelectSeq(candidateFlatMessages(export),
            LAMBDA msg : Trim(msg.conversation_id) = providerConversationId)

\* A row with an id that carries messages, a title or a timestamp; the rows of
\* the model have none of the members of a message record.
looksLikeConversationRecord(row) ==
  /\ Trim(row.id) # <<>>
  /\ \/ row.messages # <<>>
     \/ row.title # None
     \/ row.create_time # None
     \/ row.update_time # None

ClaudeConversation(providerConversationId, title, createTime, updateTime, jobId) ==
  [id |-> canonicalId("cnv", "claude", Some(providerConversationId),
                      Some(providerConversationId)),
   provider |-> "claude",
   provider_conversation_id |-> providerConversationId,
   title |-> IF Truthy(title) /\ Trim(Get(title)) # <<>> THEN Some(Trim(Get(title))) ELSE None,
   created_at |-> toIsoOrUndefined(createTime),
   updated_at |-> toIsoOrUndefined(updateTime),
   source_job_id |-> jobId,
   source_path |-> Some(SourcePath("claude", jobId))] @@ NoProvenance

\* The conversation joins its Map unless its id is there, and its messages
\* are merged into theirs; acc is the three Maps.
ConversationWithMessages(acc, conversation, rawMessages, jobId) ==
  [conversations |->
     IF MapHas(acc.conversations, conversation.id)
     THEN acc.conversations ELSE MapSet(acc.conversations, conversation)]
    @@ ClaudeMessages([messages |-> acc.messages, attachments |-> acc.attachments],
                      conversation.provider_conversation_id, conversation.id, rawMessages,
                      jobId)

\* Lines 339-387, the loop over the conversation candidates.
RECURSIVE ClaudeNested(_, _, _, _)
ClaudeNested(acc, export, convs, jobId) ==
  IF convs = <<>> THEN acc
  ELSE ClaudeNested(
         ConversationWithMessages(
           acc,
           ClaudeConversation(Trim(Head(convs).id), Head(convs).title,
                              Head(convs).create_time, Head(convs).update_time, jobId),
           Head(convs).messages \o FlatOf(export, Trim(Head(convs).id)),
           jobId),
         export, Tail(convs), jobId)

\* Lines 389-413, the loop over flatMessagesByConversation; groups is the
\* list of its keys.
RECURSIVE ClaudeFlat(_, _, _, _)
ClaudeFlat(acc, export, groups, jobId) ==
  IF groups = <<>> THEN acc
  ELSE ClaudeFlat(
         ConversationWithMessages(
           acc, ClaudeConversation(Head(groups), None, None, None, jobId),
           FlatOf(export, Head(groups)), jobId),
         export, Tail(groups), jobId)

ClaudeResult(all) ==
  [threw |-> FALSE, message |-> "",
   conversations |-> all.conversations,
   messages |-> all.messages,
   attachments |-> all.attachments,
   warnings |->
     (IF all.conversations = <<>>
      THEN <<"No conversations parsed from Claude export payload.">> ELSE <<>>)
     \o (IF all.messages = <<>>
         THEN <<"No messages parsed from Claude export payload.">> ELSE <<>>)]

ClaudeGroups(flatRows) ==
  Unique([i \in 1..Len(flatRows) |-> Trim(flatRows[i].conversation_id)])

ClaudeParseExport(export, jobId) ==
  ClaudeResult(
    ClaudeFlat(
      ClaudeNested([conversations |-> <<>>, messages |-> <<>>, attachments |-> <<>>],
                   export, SelectSeq(export.conversations, looksLikeConversationRecord), jobId),
      export, ClaudeGroups(candidateFlatMessages(export)), jobId))

\* parseClaude reports an empty payload as warnings and never throws.
parseClaude(docs, jobId) ==
  ClaudeParseExport(IF docs = None THEN [conversations |-> <<>>, flat |-> <<>>] ELSE Get(docs),
                    jobId)

parseProviderExport(provider, docs, jobId) ==
  CASE provider = "chatgpt" -> parseChatGPT(docs, jobId)
    [] provider = "claude" -> parseClaude(docs, jobId)

\* ------------------------------------------------ core/import-run.ts

Extensions == {".png", ".jpg", ".webp", ".gif", ".pdf", ".json", ".txt", ".bin"}

\* path.extname: the last token of a path when it is an extension.
ExtName(path) ==
  IF path # <<>> /\ path[Len(path)] \in Extensions THEN path[Len(path)] ELSE ""

extFromMime(mimeType) ==
  LET has(word) == \E i \in 1..Len(OrEmpty(mimeType)) : Get(mimeType)[i] = word
  IN IF ~Truthy(mimeType) THEN ""
     ELSE IF has("png") THEN ".png"
     ELSE IF has("jpeg") \/ has("jpg") THEN ".jpg"
     ELSE IF has("webp") THEN ".webp"
     ELSE IF has("gif") THEN ".gif"
     ELSE IF has("pdf") THEN ".pdf"
     ELSE IF has("json") THEN ".json"
     ELSE IF has("text") THEN ".txt"
     ELSE ""

\* One line of errors/<job_id>.ndjson.
WarnEntry(item) ==
  [level |-> "warn", code |-> "ATTACHMENT_PATH_MISSING", attachment_id |-> item.id,
   local_relpath |-> OrEmpty(item.local_relpath), message |-> ""]

ErrorEntry(message) ==
  [level |-> "error", code |-> "", attachment_id |-> <<>>, local_relpath |-> <<>>,
   message |-> message]

\* path.join(extractedRoot, item.local_relpath), as a path relative to the
\* extraction root: a "../" segment takes back the directory before it, and
\* the "../" segments that are left at the front lead out of the root.
RECURSIVE pathJoin(_)
pathJoin(relpath) ==
  IF relpath = <<>> THEN <<>>
  ELSE LET init == pathJoin(SubSeq(relpath, 1, Len(relpath) - 1))
           last == relpath[Len(relpath)]
       IN IF last = "../" /\ init # <<>> /\ init[Len(init)] # "../"
          THEN SubSeq(init, 1, Len(init) - 1)
          ELSE Append(init, last)

\* The extraction root is <dataRoot>/raw/<provider>/<y>/<m>/<job_id>/extracted.
\* ensureLayout has written <dataRoot>/_mingle/schema-version.json before the
\* job starts; it stands for the files of the machine outside the root.
HostPath == <<"../", "../", "../", "../", "../", "../", "_mingle/", "schema-version", ".json">>
HostFiles == {[path |-> HostPath, bytes |-> <<"{schema:mingle-filesystem}">>]}

\* exists(localAbsPath) and fs.readFile(localAbsPath); disk is the set of
\* [path, bytes] under the extraction root.
OnDisk(disk, relpath) == \E f \in disk \cup HostFiles : f.path = pathJoin(relpath)

ReadFile(disk, relpath) ==
  (CHOOSE f \in disk \cup HostFiles : f.path = pathJoin(relpath)).bytes

\* The loop body of materializeBlobs without lines 75-85: an attachment whose
\* file is not there is passed over like one without a local path.
MaterializeItem_SkipMissing(acc, item, disk) ==
  IF ~Truthy(item.local_relpath) \/ ~OnDisk(disk, Get(item.local_relpath))
  THEN [acc EXCEPT !.attachments = Append(@, item)]
  ELSE LET hash == sha256(ReadFile(disk, Get(item.local_relpath)))
           ext == IF ExtName(Get(item.local_relpath)) # ""
                  THEN ExtName(Get(item.local_relpath)) ELSE extFromMime(item.mime_type)
       IN [acc EXCEPT
             !.attachments = Append(@, [item EXCEPT !.blob_sha256 = Some(hash),
                                                    !.storage = "blob",
                                                    !.status = "embedded"]),
             !.blobs = @ \cup {[hash |-> hash, ext |-> ext]}]

\* The loop body of materializeBlobs without lines 92-94: the attachment is
\* given its hash and no blob file is written.
MaterializeItem_NoBlob(acc, item, disk) ==
  IF ~Truthy(item.local_relpath)
  THEN [acc EXCEPT !.attachments = Append(@, item)]
  ELSE IF ~OnDisk(disk, Get(item.local_relpath))
  THEN [acc EXCEPT
          !.attachments = Append(@, [item EXCEPT !.storage = "missing", !.status = "missing"]),
          !.log = Append(@, WarnEntry(item))]
  ELSE [acc EXCEPT
          !.attachments =
             Append(@, [item EXCEPT
                          !.blob_sha256 = Some(sha256(ReadFile(disk, Get(item.local_relpath)))),
                          !.storage = "blob",
                          !.status = "embedded"])]

\* The body of the loop of materializeBlobs for one attachment; acc is
\* [attachments, blobs, log], the items done so far, the blob store and the
\* error log of the job.
MaterializeItem(acc, item, disk) ==
  IF ~Truthy(item.local_relpath)
  THEN [acc EXCEPT !.attachments = Append(@, item)]
  ELSE IF ~OnDisk(disk, Get(item.local_relpath))
  THEN [acc EXCEPT
          !.attachments = Append(@, [item EXCEPT !.storage = "missing", !.status = "missing"]),
          !.log = Append(@, WarnEntry(item))]
  ELSE LET hash == sha256(ReadFile(disk, Get(item.local_relpath)))
           ext == IF ExtName(Get(item.local_relpath)) # ""
                  THEN ExtName(Get(item.local_relpath)) ELSE extFromMime(item.mime_type)
       IN [acc EXCEPT
             !.attachments = Append(@, [item EXCEPT !.blob_sha256 = Some(hash),
                                                    !.storage = "blob",
                                                    !.status = "embedded"]),
             !.blobs = @ \cup {[hash |-> hash, ext |-> ext]}]

RECURSIVE MaterializeLoop(_, _, _)
MaterializeLoop(acc, items, disk) ==
  IF items = <<>> THEN acc
  ELSE MaterializeLoop(MaterializeItem(acc, Head(items), disk), Tail(items), disk)

materializeBlobs(attachments, disk, blobStore, log) ==
  MaterializeLoop([attachments |-> <<>>, blobs |-> blobStore, log |-> log], attachments, disk)

\* ---------------------------------------------------- core/indexes.ts

MillisPerDay == 86400000

\* row.created_at.slice(0, 10), the UTC calendar day, or "unknown".
DatePart(row) ==
  IF row.created_at = None THEN "unknown" ELSE ToString(Get(row.created_at) \div MillisPerDay)

\* The partition files of a message set, in the order they are written.
IndexPartitions(messages) ==
  Unique([i \in 1..Len(messages) |-> <<"by-provider", messages[i].provider>>])
    \o Unique([i \in 1..Len(messages) |-> <<"by-date", DatePart(messages[i])>>])

\* The partitions without the "unknown" bucket of line 23: a message without
\* created_at is in no by-date partition.
PartitionRows_NoUnknown(messages, part) ==
  IF part[1] = "by-provider"
  THEN SelectSeq(messages, LAMBDA m : m.provider = part[2])
  ELSE SelectSeq(messages, LAMBDA m : m.created_at # None /\ DatePart(m) = part[2])

PartitionRows(messages, part) ==
  IF part[1] = "by-provider"
  THEN SelectSeq(messages, LAMBDA m : m.provider = part[2])
  ELSE SelectSeq(messages, LAMBDA m : DatePart(m) = part[2])

\* The index files after the first `count` partition writes of a rebuild.
WritePartitions(index, messages, count) ==
  LET written == {IndexPartitions(messages)[i] : i \in 1..count}
  IN [part \in DOMAIN index \cup written |->
        IF part \in written THEN PartitionRows(messages, part) ELSE index[part]]

\* rebuildMessageIndexes without its loop over byDate.
rebuildMessageIndexes_ByProviderOnly(index, messages) ==
  WritePartitions(index, messages,
                  Cardinality({messages[i].provider : i \in 1..Len(messages)}))

rebuildMessageIndexes(index, messages) ==
  WritePartitions(index, messages, Len(IndexPartitions(messages)))

\* ------------------------------------------------------------- packages

T_empty == <<>>
T_hi == <<"h", "i">>
T_hi_there == <<"h", "i", " ", "t", "h", "e", "r", "e">>
T_ok == <<"o", "k">>

Seconds(n) == [n |-> n, big |-> FALSE]

RawMessage(id, role, text, attachments) ==
  [id |-> id, conversation_id |-> <<>>, role |-> role, text |-> text,
   create_time |-> Some(Seconds(1)), model |-> None, attachments |-> attachments]

RawConversation(messages) ==
  [id |-> <<"c", "1">>, title |-> Some(<<"t">>), create_time |-> Some(Seconds(1)),
   update_time |-> Some(Seconds(2)), messages |-> messages]

RawAttachment(url, path) ==
  [id |-> <<"a", "1">>, url |-> url, path |-> path, mime_type |-> None]

Url == <<"https://example.com/remote.bin">>
AssetPath == <<"assets/", "report", ".pdf">>
AssetFile == [path |-> AssetPath, bytes |-> <<"%PDF">>]

Package(provider, ext, onDisk, docs, disk) ==
  [provider |-> provider, ext |-> ext, exists |-> onDisk, retainPackage |-> FALSE,
   docs |-> docs, disk |-> disk]

\* ChatGPT exports: one conversation of two messages; the first has one of
\* three texts and a linked attachment, the second has no attachment.
ChatGptPackages ==
  {Package("chatgpt", ".json", TRUE,
           Some([conversations |->
                   <<RawConversation(<<RawMessage(<<"m", "1">>, "user", text,
                                                  <<RawAttachment(Some(Url), None)>>),
                                       RawMessage(<<"m", "2">>, "assistant", T_ok, <<>>)>>)>>,
                 flat |-> <<>>]),
           {}) :
     text \in {T_empty, T_hi, T_hi_there}}

\* Claude exports: one conversation of one message whose attachment names a
\* local file that is in the archive, a local file that is not, or nothing;
\* in the last one the message carries no timestamp.
ClaudePackage(att, disk) ==
  Package("claude", ".zip", TRUE,
          Some([conversations |->
                  <<RawConversation(<<RawMessage(<<"m", "1">>, "human", T_hi, <<att>>)>>)>>,
                flat |-> <<>>]),
          disk)

Undated(pkg) ==
  [pkg EXCEPT !.docs = Some([Get(@) EXCEPT !.conversations[1].messages[1].create_time = None])]

ClaudePackages ==
  {ClaudePackage(RawAttachment(None, Some(AssetPath)), {AssetFile}),
   ClaudePackage(RawAttachment(None, Some(AssetPath)), {}),
   Undated(ClaudePackage(RawAttachment(None, None), {AssetFile}))}

\* A package that is not on disk, one of an unsupported format, and a ChatGPT
\* archive without any JSON document.
BadPackages ==
  {Package("chatgpt", ".json", FALSE, None, {}),
   Package("chatgpt", ".exe", TRUE, None, {}),
   Package("chatgpt", ".zip", TRUE, None, {})}

\* A Claude archive without any JSON document.
EmptyArchive == Package("claude", ".zip", TRUE, None, {})

\* A ChatGPT export whose conversations.json is an empty array, uploaded with
\* retainPackage set.
RetainedEmptyExport ==
  [Package("chatgpt", ".json", TRUE, Some([conversations |-> <<>>, flat |-> <<>>]), {})
     EXCEPT !.retainPackage = TRUE]

\* A ChatGPT export of one conversation whose mapping has no message.
EmptyConversationExport ==
  Package("chatgpt", ".json", TRUE,
          Some([conversations |-> <<RawConversation(<<>>)>>, flat |-> <<>>]), {})

Packages == ChatGptPackages \cup ClaudePackages \cup BadPackages

Providers == {"chatgpt", "claude"}
Kinds == <<"conversations", "messages", "attachments">>

\* ---------------------------------------------------------------- state

VARIABLES
  jobs,           \* import runs started so far; the id of the current job
  faults,         \* filesystem operations that have failed so far
  pc,             \* where runImport stands
  request,        \* the ImportRequest of the current run
  packageOnDisk,  \* whether request.packagePath exists
  run,            \* the RunRecord `run` of the current run
  error,          \* the error on its way to the catch block
  extracted,      \* raw/<provider>/<y>/<m>/<job_id>/extracted of the current job
  parseResult,    \* the ProviderParseResult
  existing,       \* the six row lists readNdjson returned, in write order
  upserted,       \* the six upsert results, in write order
  writeIx,        \* the next of the six writeNdjson calls
  files,          \* canonical/*.ndjson and provider/<p>/*.ndjson
  blobs,          \* blobs/sha256/<aa>/<bb>/<hash><ext>
  indexes,        \* indexes/by-provider and indexes/by-date
  meta,           \* _mingle/schema-version.json and _mingle/catalog.json
  jobFile,        \* jobs/<job_id>.json of the current job
  errorLog,       \* errors/<job_id>.ndjson of the current job
  result,         \* what runImport returned
  suspended       \* a second runImport call in flight, waiting at an `await`

vars ==
  <<jobs, faults, pc, request, packageOnDisk, run, error, extracted, parseResult, existing,
    upserted, writeIx, files, blobs, indexes, meta, jobFile, errorLog, result, suspended>>

FileNames ==
  {<<"canonical", Kinds[k]>> : k \in 1..3}
    \cup {<<"provider", p, Kinds[k]>> : p \in Providers, k \in 1..3}

\* The files of a run that writes the canonical file of an entity twice and
\* never its provider file.
Target_CanonicalOnly(provider, ix) == <<"canonical", Kinds[((ix - 1) % 3) + 1]>>

\* The six files of a run in the order runImport reads and writes them.
Target(provider, ix) ==
  IF ix <= 3 THEN <<"canonical", Kinds[ix]>> ELSE <<"provider", provider, Kinds[ix - 3]>>

IoError == "EIO: i/o error"

NoResult == [kind |-> "none", status |-> "", counters |-> <<>>, errors |-> <<>>]
NoParse ==
  [threw |-> FALSE, message |-> "", conversations |-> <<>>, messages |-> <<>>,
   attachments |-> <<>>, warnings |-> <<>>]
NoUpsert == [rows |-> <<>>, stats |-> ZeroStats]

\* jobs/<job_id>.json: absent, holding a record, or cut short by a failed write.
Absent == [state |-> "absent", record |-> <<>>]
Torn == [state |-> "torn", record |-> <<>>]
Written(record) == [state |-> "written", record |-> <<record>>]

NewRun(jobId, pkg) ==
  [job_id |-> jobId, provider |-> pkg.provider, status |-> "PACKAGE_SELECTED",
   ended |-> FALSE, raw_root_path |-> None,
   download_artifact_retained |-> pkg.retainPackage,
   warnings |-> <<>>, errors |-> <<>>, summary |-> None, canonical_records |-> None]

Init ==
  /\ jobs = 0
  /\ faults = 0
  /\ pc = "idle"
  /\ request = Package("chatgpt", ".json", FALSE, None, {})
  /\ packageOnDisk = FALSE
  /\ run = NewRun(0, request)
  /\ error = ""
  /\ extracted = None
  /\ parseResult = NoParse
  /\ existing = [ix \in 1..6 |-> <<>>]
  /\ upserted = [ix \in 1..6 |-> NoUpsert]
  /\ writeIx = 1
  /\ files = [f \in FileNames |-> <<>>]
  /\ blobs = {}
  /\ indexes = <<>>
  /\ meta = {}
  /\ jobFile = Absent
  /\ errorLog = <<>>
  /\ result = NoResult
  /\ suspended = None

\* ------------------------------------------------------------ runImport
\* fs.writeFile opens its file with O_TRUNC and then writes: a call that fails
\* has either changed nothing (the open failed) or left less than the whole
\* payload behind.  For jobs/<job_id>.json that is a torn file, for an NDJSON
\* file a proper prefix of the rows.

\* updateRun(layout.jobsRoot, run) has write access to the job file.
UpdateRunOk(record, next) ==
  /\ run' = record
  /\ jobFile' = Written(record)
  /\ pc' = next
  /\ UNCHANGED <<faults, error>>

\* updateRun throws inside the try block.
UpdateRunFails(record) ==
  /\ faults < MaxFaults
  /\ faults' = faults + 1
  /\ run' = record
  /\ jobFile' \in {jobFile, Torn}
  /\ pc' = "catch"
  /\ error' = IoError

\* `throw new Error(message)` inside the try block.
Throw(message) ==
  /\ pc' = "catch"
  /\ error' = message
  /\ UNCHANGED <<faults, run, jobFile>>

\* Lines 103-128: the layout, the job id, the run record and its first write.
\* None of this is inside the try block.
BeginImport(pkg) ==
  /\ jobs < MaxJobs
  /\ jobs' = jobs + 1
  /\ request' = pkg
  /\ packageOnDisk' = pkg.exists
  /\ extracted' = None
  /\ parseResult' = NoParse
  /\ existing' = [ix \in 1..6 |-> <<>>]
  /\ upserted' = [ix \in 1..6 |-> NoUpsert]
  /\ writeIx' = 1
  /\ errorLog' = <<>>
  /\ error' = ""
  /\ run' = NewRun(jobs + 1, pkg)
  /\ meta' = meta \cup {"schema-version.json"}
  /\ UNCHANGED <<files, blobs, indexes>>
  /\ \/ /\ jobFile' = Written(NewRun(jobs + 1, pkg))
        /\ pc' = "validate"
        /\ result' = NoResult
        /\ UNCHANGED faults
     \/ /\ faults < MaxFaults
        /\ faults' = faults + 1
        /\ jobFile' \in {Absent, Torn}
        /\ pc' = "threw"
        /\ result' = [NoResult EXCEPT !.kind = "threw", !.errors = <<IoError>>]

\* runImport is called when no call is under way.
StartImport(pkg) ==
  /\ pc \in {"idle", "done", "threw"}
  /\ BeginImport(pkg)
  /\ UNCHANGED suspended

\* Lines 131-136.
Validate ==
  /\ pc = "validate"
  /\ \/ /\ ~packageOnDisk
        /\ Throw("Import package not found on disk.")
     \/ /\ packageOnDisk
        /\ \/ UpdateRunOk([run EXCEPT !.status = "PACKAGE_VALIDATED"], "extract")
           \/ UpdateRunFails([run EXCEPT !.status = "PACKAGE_VALIDATED"])
  /\ UNCHANGED <<jobs, suspended, request, packageOnDisk, extracted, parseResult, existing,
                 upserted,                 writeIx, files, blobs, indexes, meta, errorLog, result>>

SupportedExtensions == {".zip", ".json", ".txt", ".ndjson"}

\* Lines 138-156: the archive is unpacked, or the file copied, into the raw
\* directory of the job.
Extract ==
  /\ pc = "extract"
  /\ \/ /\ request.ext \notin SupportedExtensions
        /\ Throw("Unsupported package format. Please upload .zip, .json, .ndjson, or .txt")
        /\ UNCHANGED extracted
     \/ /\ request.ext \in SupportedExtensions
        /\ \/ /\ extracted' = Some([docs |-> request.docs, disk |-> request.disk])
              /\ \/ UpdateRunOk([run EXCEPT !.status = "EXTRACTED_TO_RAW",
                                            !.raw_root_path = Some(SourcePath(run.provider, run.job_id))],
                                "parse")
                 \/ UpdateRunFails([run EXCEPT !.status = "EXTRACTED_TO_RAW",
                                               !.raw_root_path = Some(SourcePath(run.provider, run.job_id))])
           \/ /\ faults < MaxFaults
              /\ faults' = faults + 1
              /\ pc' = "catch"
              /\ error' = IoError
              /\ UNCHANGED <<extracted, run, jobFile>>
  /\ UNCHANGED <<jobs, suspended, request, packageOnDisk, parseResult, existing, upserted, writeIx,
                 files, blobs, indexes, meta, errorLog, result>>

\* Lines 165-167, or the catch block when the extractor threw.
Parsed(parsed) ==
  \/ /\ parsed.threw
     /\ Throw(parsed.message)
     /\ UNCHANGED parseResult
  \/ /\ ~parsed.threw
     /\ parseResult' = parsed
     /\ \/ UpdateRunOk([run EXCEPT !.status = "PARSED_PROVIDER_RECORDS",
                                   !.warnings = parsed.warnings],
                       "materialize")
        \/ UpdateRunFails([run EXCEPT !.status = "PARSED_PROVIDER_RECORDS",
                                      !.warnings = parsed.warnings])

\* Lines 158-167.
Parse ==
  /\ pc = "parse"
  /\ Parsed(parseProviderExport(run.provider, Get(extracted).docs, run.job_id))
  /\ UNCHANGED <<jobs, suspended, request, packageOnDisk, extracted, existing, upserted, writeIx, files,
                 blobs, indexes, meta, errorLog, result>>

\* Lines 169-172.  A write that fails inside materializeBlobs fails at an
\* attachment that has a local path, after the ones before it are done.
Materialize ==
  /\ pc = "materialize"
  /\ \/ LET done == materializeBlobs(parseResult.attachments, Get(extracted).disk, blobs, errorLog)
        IN /\ parseResult' = [parseResult EXCEPT !.attachments = done.attachments]
           /\ blobs' = done.blobs
           /\ errorLog' = done.log
           /\ \/ UpdateRunOk([run EXCEPT !.status = "MAPPED_CANONICAL_RECORDS"], "upsert")
              \/ UpdateRunFails([run EXCEPT !.status = "MAPPED_CANONICAL_RECORDS"])
     \/ \E at \in 1..Len(parseResult.attachments) :
          LET done == materializeBlobs(SubSeq(parseResult.attachments, 1, at - 1),
                                       Get(extracted).disk, blobs, errorLog)
          IN /\ Truthy(parseResult.attachments[at].local_relpath)
             /\ faults < MaxFaults
             /\ faults' = faults + 1
             /\ parseResult' =
                  [parseResult EXCEPT
                     !.attachments = done.attachments
                                       \o SubSeq(parseResult.attachments, at, Len(@))]
             /\ blobs' = done.blobs
             /\ errorLog' = done.log
             /\ pc' = "catch"
             /\ error' = IoError
             /\ UNCHANGED <<run, jobFile>>
  /\ UNCHANGED <<jobs, suspended, request, packageOnDisk, extracted, existing, upserted, writeIx, files,
                 indexes, meta, result>>

\* Lines 174-213: the six files are read and the six upserts computed; nothing
\* is awaited between the upserts.  A readNdjson call that throws leaves the
\* dataset as it was.
ReadAndUpsert ==
  /\ pc = "upsert"
  /\ \/ /\ existing' = [ix \in 1..6 |-> files[Target(run.provider, ix)]]
        /\ upserted' =
             [ix \in 1..6 |->
                CASE ix \in {1, 4} ->
                       upsertConversations(existing'[ix], parseResult.conversations, run.job_id)
                  [] ix \in {2, 5} ->
                       upsertMessages(existing'[ix], parseResult.messages, run.job_id)
                  [] ix \in {3, 6} ->
                       upsertAttachments(existing'[ix], parseResult.attachments, run.job_id)]
        /\ pc' = "write"
        /\ UNCHANGED <<faults, error>>
     \/ /\ faults < MaxFaults
        /\ faults' = faults + 1
        /\ pc' = "catch"
        /\ error' = IoError
        /\ UNCHANGED <<existing, upserted>>
  /\ writeIx' = 1
  /\ UNCHANGED <<jobs, suspended, request, packageOnDisk, run, extracted, parseResult, files,
                 blobs, indexes, meta, jobFile, errorLog, result>>

\* fsx.ts writeNdjson(filePath, rows).
writeNdjson(rows) == rows

\* What a writeNdjson call that throws can leave in the file.
FailedWrite(old, rows) ==
  {old} \cup {SubSeq(writeNdjson(rows), 1, n) : n \in 0..(Len(rows) - 1)}

\* Lines 215-221, one writeNdjson call at a time.
WriteDataset ==
  /\ pc = "write"
  /\ LET target == Target(run.provider, writeIx)
     IN \/ /\ files' = [files EXCEPT ![target] = writeNdjson(upserted[writeIx].rows)]
           /\ writeIx' = writeIx + 1
           /\ pc' = IF writeIx = 6 THEN "deduped" ELSE "write"
           /\ UNCHANGED <<faults, error>>
        \/ /\ faults < MaxFaults
           /\ faults' = faults + 1
           /\ \E left \in FailedWrite(files[target], upserted[writeIx].rows) :
                files' = [files EXCEPT ![target] = left]
           /\ pc' = "catch"
           /\ error' = IoError
           /\ UNCHANGED writeIx
  /\ UNCHANGED <<jobs, suspended, request, packageOnDisk, run, extracted, parseResult, existing, upserted,
                 blobs, indexes, meta, jobFile, errorLog, result>>

\* Lines 223-229.
Deduped ==
  /\ pc = "deduped"
  /\ LET record ==
           [run EXCEPT !.status = "DEDUPED_UPSERTED",
                       !.summary = Some([conversations |-> upserted[1].stats,
                                         messages |-> upserted[2].stats,
                                         attachments |-> upserted[3].stats])]
     IN UpdateRunOk(record, "index") \/ UpdateRunFails(record)
  /\ UNCHANGED <<jobs, suspended, request, packageOnDisk, extracted, parseResult, existing,
                 upserted,                 writeIx, files, blobs, indexes, meta, errorLog, result>>

ZeroCounters ==
  [conversations |-> ZeroStats, messages |-> ZeroStats, attachments |-> ZeroStats]

\* Lines 243-249 without the test of retainPackage.
unlinkPackage_Always(onDisk, retainPackage) == {FALSE}

\* Lines 243-249: whether the package file can exist afterwards; fs.unlink is
\* called unless retention was asked for, and its failure is ignored.
unlinkPackage(onDisk, retainPackage) ==
  IF retainPackage THEN {onDisk} ELSE {FALSE, onDisk}

\* Lines 231-262: the indexes, the catalog, the last write of the job record,
\* the removal of the package and the result.
Normalize ==
  /\ pc = "index"
  /\ LET record ==
           [run EXCEPT !.status = "NORMALIZED",
                       !.ended = TRUE,
                       !.canonical_records =
                          Some([conversations |-> Len(upserted[1].rows),
                                messages |-> Len(upserted[2].rows),
                                attachments |-> Len(upserted[3].rows)])]
     IN \/ /\ indexes' = rebuildMessageIndexes(indexes, upserted[2].rows)
           /\ meta' = meta \cup {"catalog.json"}
           /\ \/ /\ UpdateRunOk(record, "done")
                 /\ packageOnDisk' \in unlinkPackage(packageOnDisk, request.retainPackage)
                 /\ result' = [kind |-> "returned", status |-> "NORMALIZED",
                               counters |-> Get(run.summary), errors |-> <<>>]
              \/ /\ UpdateRunFails(record)
                 /\ UNCHANGED <<packageOnDisk, result>>
        \/ \E count \in 0..Len(IndexPartitions(upserted[2].rows)) :
             /\ faults < MaxFaults
             /\ faults' = faults + 1
             /\ indexes' = WritePartitions(indexes, upserted[2].rows, count)
             /\ pc' = "catch"
             /\ error' = IoError
             /\ UNCHANGED <<meta, run, jobFile, packageOnDisk, result>>
  /\ UNCHANGED <<jobs, suspended, request, extracted, parseResult, existing, upserted, writeIx, files,
                 blobs, errorLog>>

\* Lines 263-292: the catch block.  Its two writes are not guarded: when one
\* fails, the error leaves runImport.
Catch ==
  /\ pc = "catch"
  /\ run' = [run EXCEPT !.status = "FAILED", !.ended = TRUE, !.errors = Append(@, error)]
  /\ \/ /\ jobFile' = Written(run')
        /\ errorLog' = Append(errorLog, ErrorEntry(error))
        /\ pc' = "done"
        /\ result' = [kind |-> "returned", status |-> "FAILED", counters |-> ZeroCounters,
                      errors |-> <<error>>]
        /\ UNCHANGED faults
     \/ /\ faults < MaxFaults
        /\ faults' = faults + 1
        /\ jobFile' \in {jobFile, Torn}
        /\ UNCHANGED errorLog
        /\ pc' = "threw"
        /\ result' = [NoResult EXCEPT !.kind = "threw", !.errors = <<IoError>>]
     \/ /\ faults < MaxFaults
        /\ faults' = faults + 1
        /\ jobFile' = Written(run')
        /\ UNCHANGED errorLog
        /\ pc' = "threw"
        /\ result' = [NoResult EXCEPT !.kind = "threw", !.errors = <<IoError>>]
  /\ UNCHANGED <<jobs, suspended, request, packageOnDisk, error, extracted, parseResult, existing,
                 upserted, writeIx, files, blobs, indexes, meta>>

Next ==
  \/ \E pkg \in Packages : StartImport(pkg)
  \/ Validate
  \/ Extract
  \/ Parse
  \/ Materialize
  \/ ReadAndUpsert
  \/ WriteDataset
  \/ Deduped
  \/ Normalize
  \/ Catch

Spec == Init /\ [][Next]_vars

\* ------------------------------------------------------------ properties

\* types/schema.ts: the statuses of the pipeline, in order; FAILED stands apart.
StatusOrder ==
  <<"PACKAGE_SELECTED", "PACKAGE_VALIDATED", "EXTRACTED_TO_RAW", "PARSED_PROVIDER_RECORDS",
    "MAPPED_CANONICAL_RECORDS", "DEDUPED_UPSERTED", "NORMALIZED">>

Position(status) == CHOOSE i \in 1..Len(StatusOrder) : StatusOrder[i] = status

Terminal == {"NORMALIZED", "FAILED"}

\* No call of runImport is under way.
AtRest == pc \in {"idle", "done", "threw"}

Ids(rows) == {rows[i].id : i \in 1..Len(rows)}

Elements(list) == {list[i] : i \in 1..Len(list)}

UniqueIds(rows) == \A i, j \in 1..Len(rows) : rows[i].id = rows[j].id => i = j

\* The status in jobs/<job_id>.json, "" when the file holds no record.
PersistedStatus == IF jobFile.state = "written" THEN jobFile.record[1].status ELSE ""

\* The canonical rows that the first job leaves in an empty dataset when it
\* imports the package of the current request without an error.
FirstImport(ix) ==
  LET parsed == parseProviderExport(request.provider, request.docs, 1)
  IN Upsert(Kinds[ix], <<>>,
            CASE ix = 1 -> parsed.conversations
              [] ix = 2 -> parsed.messages
              [] ix = 3 -> materializeBlobs(parsed.attachments, request.disk, {}, <<>>)
                             .attachments,
            1).rows

\* The second of two runs has ended NORMALIZED, and the dataset it read is
\* what the first run made of the same package and an empty dataset.
SecondOfTwoImports ==
  /\ jobs = 2
  /\ pc = "done"
  /\ faults = 0
  /\ result.kind = "returned"
  /\ result.status = "NORMALIZED"
  /\ \A ix \in 1..3 : existing[ix] = FirstImport(ix)

\* C1: the second of two imports of one payload into an empty dataset counts
\* no row as new, none as updated, and as unchanged every row the first
\* import inserted, for conversations, messages and attachments.
C1_ReimportIsUnchanged ==
  SecondOfTwoImports =>
    \A ix \in 1..3 :
      /\ result.counters[Kinds[ix]].new = 0
      /\ result.counters[Kinds[ix]].updated = 0
      /\ result.counters[Kinds[ix]].unchanged = Len(existing[ix])

\* A second import of the same ChatGPT payload that counts a message as updated.
C1_ReimportCountsUpdate ==
  /\ SecondOfTwoImports
  /\ request.provider = "chatgpt"
  /\ result.counters.messages.updated > 0
  /\ result.counters.messages.new = 0

\* C2: when no run is under way, every canonical and every provider NDJSON
\* file holds at most one row per canonical id.
C2_OneRowPerId ==
  AtRest => \A f \in FileNames : UniqueIds(files[f])

\* A payload has been imported over rows it shares with the dataset, and the
\* message file still holds its two rows.
C2_OverlapReimported ==
  /\ pc = "done"
  /\ jobs >= 2
  /\ result.status = "NORMALIZED"
  /\ upserted[2].stats.new = 0
  /\ Len(existing[2]) = 2
  /\ Len(files[<<"canonical", "messages">>]) = 2
  /\ Len(files[<<"provider", "chatgpt", "messages">>]) = 2

\* C3: the status of the run record of a job moves from a status to the next
\* one of the order, or into FAILED from a status that is not terminal, and
\* in no other way.
C3_OneStepAtATime ==
  [][(run'.job_id = run.job_id /\ run'.status # run.status) =>
       IF run'.status = "FAILED"
       THEN run.status \notin Terminal
       ELSE run.status # "FAILED" /\ Position(run'.status) = Position(run.status) + 1]_vars

\* The run record says NORMALIZED and the catch block is about to run.
C3_NormalizedInCatch ==
  pc = "catch" /\ run.status = "NORMALIZED"

\* The parse result of the run is what the extractor returns for the package.
ParseDone(parsed) ==
  /\ ~parsed.threw
  /\ parseResult.conversations = parsed.conversations
  /\ parseResult.messages = parsed.messages
  /\ Len(parseResult.attachments) = Len(parsed.attachments)

\* The work of the stages up to a status, as the disk and the variables of
\* runImport show it.
StageDone(status) ==
  LET at == IF status \in Elements(StatusOrder) THEN Position(status) ELSE 0
  IN /\ at >= 2 => request.exists
     /\ at >= 3 => extracted = Some([docs |-> request.docs, disk |-> request.disk])
     /\ at >= 4 => ParseDone(parseProviderExport(run.provider, request.docs, run.job_id))
     /\ at >= 5 =>
          \A i \in 1..Len(parseResult.attachments) :
            LET item == parseResult.attachments[i]
            IN Truthy(item.local_relpath) =>
                 IF OnDisk(request.disk, Get(item.local_relpath))
                 THEN /\ item.status = "embedded"
                      /\ item.blob_sha256 # None
                      /\ \E blob \in blobs : blob.hash = Get(item.blob_sha256)
                 ELSE item.status = "missing"
     /\ at >= 6 =>
          \A ix \in 1..6 : files[Target(run.provider, ix)] = upserted[ix].rows
     /\ at >= 7 =>
          /\ \A part \in Elements(IndexPartitions(upserted[2].rows)) :
               /\ part \in DOMAIN indexes
               /\ indexes[part] = PartitionRows(upserted[2].rows, part)
          /\ "catalog.json" \in meta

\* C4: the job file holds the run record whenever the last updateRun has
\* returned, and the status it holds names a stage whose work, and that of
\* the stages before it, is done; under NORMALIZED the six dataset files hold
\* the upserted rows and every index partition of the run is written.
C4_PersistedStageIsDone ==
  /\ pc \in {"validate", "extract", "parse", "materialize", "upsert", "write", "deduped",
             "index", "done"} => jobFile = Written(run)
  /\ jobFile.state = "written" => StageDone(jobFile.record[1].status)

\* The job file says NORMALIZED for a run that wrote rows and partitions.
C4_NormalizedPersisted ==
  /\ PersistedStatus = "NORMALIZED"
  /\ files[Target(run.provider, 5)] # <<>>
  /\ DOMAIN indexes # {}

\* C5: once the run record says FAILED, the job file holds a FAILED record
\* whose errors contain the message, the error log of the job has an error
\* entry with the message, and runImport has returned FAILED with it.
C5_FailureIsRecorded ==
  run.status = "FAILED" =>
    /\ PersistedStatus = "FAILED"
    /\ error \in Elements(jobFile.record[1].errors)
    /\ \E i \in 1..Len(errorLog) : errorLog[i].level = "error" /\ errorLog[i].message = error
    /\ result.kind = "returned"
    /\ result.status = "FAILED"
    /\ result.errors = <<error>>

\* A run that failed on its package has left runImport by an exception, and
\* its error log has no entry.
C5_FailureLeftUnrecorded ==
  /\ run.status = "FAILED"
  /\ error = "Import package not found on disk."
  /\ result.kind = "threw"
  /\ errorLog = <<>>

\* C6: within a job, a terminal status of the run record stays, and so does
\* a terminal status held by the job file.
C6_TerminalIsFinal ==
  [][jobs' = jobs =>
       /\ run.status \in Terminal => run'.status = run.status
       /\ PersistedStatus \in Terminal => PersistedStatus' = PersistedStatus]_vars

\* The run record says FAILED and carries the record count that is set
\* together with NORMALIZED.
C6_FailedAfterNormalized ==
  /\ run.status = "FAILED"
  /\ run.canonical_records # None
  /\ result.status = "FAILED"

\* C7: a row that is in a dataset file before and after a step keeps its
\* first_seen_job_id, and its seen_in_jobs keeps every job it held.
C7_ProvenanceOnlyGrows ==
  [][\A f \in FileNames :
       \A i \in 1..Len(files[f]) :
         \A j \in 1..Len(files'[f]) :
           files'[f][j].id = files[f][i].id =>
             /\ files'[f][j].first_seen_job_id = files[f][i].first_seen_job_id
             /\ Elements(OrEmpty(files[f][i].seen_in_jobs))
                  \subseteq Elements(OrEmpty(files'[f][j].seen_in_jobs))]_vars

\* A canonical message that the first job created and a later job saw again.
C7_SeenByTwoJobs ==
  \E i \in 1..Len(files[<<"canonical", "messages">>]) :
    LET row == files[<<"canonical", "messages">>][i]
    IN /\ row.first_seen_job_id = Some(1)
       /\ row.last_seen_job_id = Some(2)
       /\ row.seen_in_jobs = Some(<<1, 2>>)

\* C8: when a run is over, however it ended, every id that was in a dataset
\* file when the run read it is still in that file.
C8_NoRecordRemoved ==
  pc \in {"done", "threw"} =>
    \A ix \in 1..6 : Ids(existing[ix]) \subseteq Ids(files[Target(run.provider, ix)])

\* A run has ended FAILED and the message file it read two rows from is empty.
C8_RowsLost ==
  /\ pc = "done"
  /\ run.status = "FAILED"
  /\ Len(existing[2]) = 2
  /\ files[<<"canonical", "messages">>] = <<>>

\* C9: in the upsert of the messages of a run, an incoming message whose id is
\* in the Map with a non-empty text shorter than its own replaces that text
\* and adds 1 to updated and nothing to the other counters; one whose text is
\* shorter than the stored one, or empty, leaves the stored text.  The rows
\* and counters of the run are those of upsertMessages; they are looked at
\* when the upserts are computed and before the first file is written.
C9_LongerTextWins ==
  (pc = "write" /\ writeIx = 1) =>
    /\ upserted[2] = upsertMessages(existing[2], parseResult.messages, run.job_id)
    /\ \A i \in 1..Len(parseResult.messages) :
         LET next == parseResult.messages[i]
             before == upsertMessages(existing[2], SubSeq(parseResult.messages, 1, i - 1),
                                      run.job_id)
             after == upsertMessages(existing[2], SubSeq(parseResult.messages, 1, i),
                                     run.job_id)
         IN MapHas(before.rows, next.id) =>
              /\ (/\ MapGet(before.rows, next.id).text # <<>>
                  /\ Len(next.text) > Len(MapGet(before.rows, next.id).text)) =>
                   /\ MapGet(after.rows, next.id).text = next.text
                   /\ after.stats = [before.stats EXCEPT !.updated = @ + 1]
              /\ (\/ next.text = <<>>
                  \/ Len(next.text) < Len(MapGet(before.rows, next.id).text)) =>
                   MapGet(after.rows, next.id).text = MapGet(before.rows, next.id).text

\* "hi there" arrives for a stored "hi" and is the text of the upserted row.
C9_LongerTextArrived ==
  /\ pc = "write"
  /\ parseResult.messages # <<>>
  /\ parseResult.messages[1].text = T_hi_there
  /\ MapHas(existing[2], parseResult.messages[1].id)
  /\ MapGet(existing[2], parseResult.messages[1].id).text = T_hi
  /\ MapGet(upserted[2].rows, parseResult.messages[1].id).text = T_hi_there
  /\ upserted[2].stats.updated >= 1

\* C10: a canonical attachment that is embedded before a step is not missing
\* after it.
C10_EmbeddedStaysEmbedded ==
  [][\A i \in 1..Len(files[<<"canonical", "attachments">>]) :
       \A j \in 1..Len(files'[<<"canonical", "attachments">>]) :
         LET before == files[<<"canonical", "attachments">>][i]
             after == files'[<<"canonical", "attachments">>][j]
         IN (/\ after.id = before.id
             /\ before.status = "embedded"
             /\ before.storage = "blob") => after.status # "missing"]_vars

\* A canonical attachment that two jobs saw is missing and names its blob.
C10_EmbeddedWentMissing ==
  \E i \in 1..Len(files[<<"canonical", "attachments">>]) :
    LET row == files[<<"canonical", "attachments">>][i]
    IN /\ faults = 0
       /\ row.status = "missing"
       /\ row.blob_sha256 # None
       /\ row.seen_in_jobs = Some(<<1, 2>>)

\* ------------------------------------------- materializeBlobs on its own
\* The archive of a Claude export of two messages with one attachment each; an
\* attachment names one of four files of the archive, three of them with the
\* same bytes, one of them also by a path with a ".." segment, or a file that
\* is not in it, or a file outside the extraction root, with or without a
\* mime type.

ReportCopy == [path |-> <<"assets/", "copy", ".bin">>, bytes |-> <<"%PDF">>]
ReportBare == [path |-> <<"assets/", "report">>, bytes |-> <<"%PDF">>]
OtherFile == [path |-> <<"assets/", "other", ".pdf">>, bytes |-> <<"other">>]
GonePath == <<"assets/", "gone", ".pdf">>
Archive == {AssetFile, ReportCopy, ReportBare, OtherFile}
\* assets/../assets/report.pdf: a path with a ".." segment that stays inside.
RoundaboutPath == <<"assets/", "../", "assets/", "report", ".pdf">>
ArchivePaths == {f.path : f \in Archive} \cup {GonePath, RoundaboutPath, HostPath}
MimePdf == <<"application", "/", "pdf">>

RawFile(id, path, mime) == [id |-> id, url |-> None, path |-> Some(path), mime_type |-> mime]

ArchivePackages ==
  {Package("claude", ".zip", TRUE,
           Some([conversations |->
                   <<RawConversation(
                       <<RawMessage(<<"m", "1">>, "human", T_hi, <<RawFile(<<"a", "1">>, p1, k1)>>),
                         RawMessage(<<"m", "2">>, "human", T_ok, <<RawFile(<<"a", "2">>, p2, k2)>>)>>)>>,
                 flat |-> <<>>]),
           Archive) :
     p1 \in ArchivePaths, p2 \in ArchivePaths,
     k1 \in {None, Some(MimePdf)}, k2 \in {None, Some(MimePdf)}}

\* The state of job `jobId` when line 167 has run: the package is extracted,
\* the extractor has returned `parsed` and the job record says so.
AfterParse(jobId, pkg, parsed) ==
  /\ jobs = jobId
  /\ faults = 0
  /\ pc = "materialize"
  /\ request = pkg
  /\ packageOnDisk = TRUE
  /\ run = [NewRun(jobId, pkg) EXCEPT
              !.status = "PARSED_PROVIDER_RECORDS",
              !.raw_root_path = Some(SourcePath(pkg.provider, jobId)),
              !.warnings = parsed.warnings]
  /\ error = ""
  /\ extracted = Some([docs |-> pkg.docs, disk |-> pkg.disk])
  /\ parseResult = parsed
  /\ existing = [ix \in 1..6 |-> <<>>]
  /\ upserted = [ix \in 1..6 |-> NoUpsert]
  /\ writeIx = 1
  /\ files = [f \in FileNames |-> <<>>]
  /\ blobs = {}
  /\ indexes = <<>>
  /\ meta = {"schema-version.json"}
  /\ jobFile = Written(run)
  /\ errorLog = <<>>
  /\ result = NoResult
  /\ suspended = None

BlobInit ==
  \E pkg \in ArchivePackages : AfterParse(1, pkg, parseProviderExport(pkg.provider, pkg.docs, 1))

\* The first job of a data root, from the call of materializeBlobs to line 172.
BlobSpec == BlobInit /\ [][Materialize]_vars

\* The attachment names a file of the archive.
HasFile(item) ==
  /\ Truthy(item.local_relpath)
  /\ OnDisk(Get(extracted).disk, Get(item.local_relpath))

FileBytes(item) == ReadFile(Get(extracted).disk, Get(item.local_relpath))

BlobsOf(hash) == {blob \in blobs : Some(blob.hash) = hash}

\* C11: when materializeBlobs has returned, two attachments whose files hold
\* the same bytes carry the same blob_sha256, and the blob store holds exactly
\* one file for that hash.
C11_OneBlobPerContent ==
  pc = "upsert" =>
    \A i, j \in 1..Len(parseResult.attachments) :
      LET a == parseResult.attachments[i]
          b == parseResult.attachments[j]
      IN (HasFile(a) /\ HasFile(b) /\ FileBytes(a) = FileBytes(b)) =>
           /\ a.blob_sha256 # None
           /\ a.blob_sha256 = b.blob_sha256
           /\ Cardinality(BlobsOf(a.blob_sha256)) = 1

\* Two attachments of two messages carry one hash, and the blob store holds a
\* file of that hash under each of two extensions.
C11_TwoBlobsOfOneContent ==
  /\ pc = "upsert"
  /\ Len(parseResult.attachments) = 2
  /\ parseResult.attachments[1].message_id # parseResult.attachments[2].message_id
  /\ parseResult.attachments[1].blob_sha256 # None
  /\ parseResult.attachments[1].blob_sha256 = parseResult.attachments[2].blob_sha256
  /\ Cardinality(BlobsOf(parseResult.attachments[1].blob_sha256)) = 2

\* The attachments of the current run that name a file the archive lacks.
MissingFiles ==
  {i \in 1..Len(parseResult.attachments) :
     /\ Truthy(parseResult.attachments[i].local_relpath)
     /\ ~OnDisk(Get(extracted).disk, Get(parseResult.attachments[i].local_relpath))}

WarningsFor(item) == {k \in 1..Len(errorLog) : errorLog[k] = WarnEntry(item)}

\* C12: when materializeBlobs has returned, an attachment whose local_relpath
\* names no file of the archive has storage missing and status missing, and
\* the error log of the job holds exactly one warning with its id and path;
\* a run with such an attachment ends NORMALIZED unless an I/O error stops it.
C12_MissingFileIsWarned ==
  /\ pc = "upsert" =>
       \A i \in MissingFiles :
         /\ parseResult.attachments[i].storage = "missing"
         /\ parseResult.attachments[i].status = "missing"
         /\ Cardinality(WarningsFor(parseResult.attachments[i])) = 1
  /\ (pc = "done" /\ extracted # None /\ MissingFiles # {}) =>
       result.status = "NORMALIZED" \/ error = IoError

\* A run whose attachment names a missing file has ended NORMALIZED with the
\* warning in its error log.
C12_MissingFileNormalized ==
  /\ pc = "done"
  /\ result.kind = "returned"
  /\ result.status = "NORMALIZED"
  /\ extracted # None
  /\ \E i \in MissingFiles :
       /\ parseResult.attachments[i].status = "missing"
       /\ WarningsFor(parseResult.attachments[i]) # {}

\* --------------------------------------------- server.ts POST /api/import
\* The handler awaits runImport and nothing keeps a second request from
\* calling runImport while the first call waits at an `await`.  The variables
\* pc .. result describe the call the event loop is running; `suspended` holds
\* those of the call that waits.

Call ==
  [pc |-> pc, request |-> request, packageOnDisk |-> packageOnDisk, run |-> run,
   error |-> error, extracted |-> extracted, parseResult |-> parseResult,
   existing |-> existing, upserted |-> upserted, writeIx |-> writeIx,
   jobFile |-> jobFile, errorLog |-> errorLog, result |-> result]

InProgress(at) == at \notin {"idle", "done", "threw"}

\* The packages uploaded to the server.
Uploads ==
  {pkg \in ChatGptPackages : pkg.docs # None /\ Get(pkg.docs).conversations[1].messages[1].text # T_empty}
    \cup {ClaudePackage(RawAttachment(None, Some(AssetPath)), {AssetFile})}

\* Lines 228-243 while a call is in progress: the handler calls runImport.
Arrive(pkg) ==
  /\ InProgress(pc)
  /\ suspended = None
  /\ suspended' = Some(Call)
  /\ BeginImport(pkg)

\* The event loop goes on with the call that was waiting.
Resume ==
  /\ suspended # None
  /\ InProgress(Get(suspended).pc)
  /\ suspended' = Some(Call)
  /\ pc' = Get(suspended).pc
  /\ request' = Get(suspended).request
  /\ packageOnDisk' = Get(suspended).packageOnDisk
  /\ run' = Get(suspended).run
  /\ error' = Get(suspended).error
  /\ extracted' = Get(suspended).extracted
  /\ parseResult' = Get(suspended).parseResult
  /\ existing' = Get(suspended).existing
  /\ upserted' = Get(suspended).upserted
  /\ writeIx' = Get(suspended).writeIx
  /\ jobFile' = Get(suspended).jobFile
  /\ errorLog' = Get(suspended).errorLog
  /\ result' = Get(suspended).result
  /\ UNCHANGED <<jobs, faults, files, blobs, indexes, meta>>

ServerNext ==
  \/ \E pkg \in Uploads : StartImport(pkg)
  \/ \E pkg \in Uploads : Arrive(pkg)
  \/ Resume
  \/ Validate
  \/ Extract
  \/ Parse
  \/ Materialize
  \/ ReadAndUpsert
  \/ WriteDataset
  \/ Deduped
  \/ Normalize
  \/ Catch

ServerSpec == Init /\ [][ServerNext]_vars

\* C13: no two runImport calls are between PACKAGE_SELECTED and a terminal
\* status at the same time.
C13_OneRunAtATime ==
  suspended # None => ~(InProgress(pc) /\ InProgress(Get(suspended).pc))

\* Two runs are in progress on the data root, both past PACKAGE_VALIDATED.
C13_TwoRunsInProgress ==
  /\ suspended # None
  /\ pc \in {"parse", "materialize", "upsert", "write"}
  /\ Get(suspended).pc \in {"parse", "materialize", "upsert", "write"}
  /\ run.job_id # Get(suspended).run.job_id
  /\ faults = 0

\* C14: no step of a run, the catch block included, takes back what the run
\* has merged or touches what it has not written yet: a step leaves a dataset
\* file as it was, or it is the writeNdjson call that is due and the file then
\* holds the whole of the merged rows of the run.
C14_WrittenWholeOrUntouched ==
  [][\A f \in FileNames :
       \/ files'[f] = files[f]
       \/ /\ pc = "write"
          /\ f = Target(run.provider, writeIx)
          /\ files'[f] = upserted[writeIx].rows]_vars

\* A run has returned FAILED and the file whose write failed holds neither
\* the rows it had before the run nor the merged rows.
C14_FailedWithPartOfAFile ==
  /\ pc = "done"
  /\ result.status = "FAILED"
  /\ run.status = "FAILED"
  /\ files[Target(run.provider, writeIx)] # existing[writeIx]
  /\ files[Target(run.provider, writeIx)] # upserted[writeIx].rows
  /\ \A ix \in 1..(writeIx - 1) : files[Target(run.provider, ix)] = upserted[ix].rows
  /\ \A ix \in (writeIx + 1)..6 : files[Target(run.provider, ix)] = existing[ix]

\* ------------------------------------------ exports without messages
\* Runs over a ChatGPT export with messages, the two exports without, one of
\* them uploaded with retainPackage, a Claude archive without documents, and
\* two packages that fail before the extraction.

HiExport ==
  CHOOSE pkg \in ChatGptPackages : Get(pkg.docs).conversations[1].messages[1].text = T_hi

QuietPackages ==
  {HiExport, RetainedEmptyExport, EmptyConversationExport, EmptyArchive,
   Package("chatgpt", ".json", FALSE, None, {}),
   Package("chatgpt", ".exe", TRUE, None, {})}

QuietNext ==
  \/ \E pkg \in QuietPackages : StartImport(pkg)
  \/ Validate
  \/ Extract
  \/ Parse
  \/ Materialize
  \/ ReadAndUpsert
  \/ WriteDataset
  \/ Deduped
  \/ Normalize
  \/ Catch

QuietSpec == Init /\ [][QuietNext]_vars

\* C15: a package file that was there when runImport was called is gone only
\* if retention was not asked for and the extraction into raw was completed;
\* with retainPackage set, or without a completed extraction, it still exists.
C15_PackageKept ==
  (request.exists /\ ~packageOnDisk) => (~request.retainPackage /\ extracted # None)

\* A run with retainPackage set has returned NORMALIZED and its package file is
\* still there.
C15_RetainedAfterNormalized ==
  /\ pc = "done"
  /\ result.status = "NORMALIZED"
  /\ request.retainPackage
  /\ request.exists
  /\ packageOnDisk

\* The run is over and its extractor had a payload file to read.
PayloadRead == pc = "done" /\ extracted # None /\ Get(extracted).docs # None

\* The run returned NORMALIZED and its job record carries warnings.
NormalizedWithWarnings ==
  /\ result.status = "NORMALIZED"
  /\ jobFile.state = "written"
  /\ jobFile.record[1].status = "NORMALIZED"
  /\ jobFile.record[1].warnings # <<>>

\* The counters of the entity are 0 and its two files hold the rows read
\* before the upsert.
EntityUntouched(k) ==
  /\ result.counters[Kinds[k]] = ZeroStats
  /\ files[Target(run.provider, k)] = existing[k]
  /\ files[Target(run.provider, k + 3)] = existing[k + 3]

C17_IndexDependsOnMessagesOnly ==
  (pc = "done" /\ result.status = "NORMALIZED") =>
    indexes = rebuildMessageIndexes(<<>>, upserted[2].rows)

\* After a rebuild a date partition that no message of M belongs to still
\* holds a message, which M has in another date partition.
C17_LeftoverPartition ==
  /\ pc = "done"
  /\ result.status = "NORMALIZED"
  /\ faults = 0
  /\ \E part \in DOMAIN indexes :
       /\ part[1] = "by-date"
       /\ part \notin Elements(IndexPartitions(upserted[2].rows))
       /\ \E i \in 1..Len(indexes[part]), j \in 1..Len(upserted[2].rows) :
            /\ indexes[part][i].id = upserted[2].rows[j].id
            /\ DatePart(upserted[2].rows[j]) # part[2]

OfProvider(rows, provider) == SelectSeq(rows, LAMBDA row : row.provider = provider)

\* Every provider file holds the rows of its provider of the canonical file.
Mirrored ==
  \A p \in Providers, k \in 1..3 :
    files[<<"provider", p, Kinds[k]>>] = OfProvider(files[<<"canonical", Kinds[k]>>], p)

\* Between the six writes: the files written hold the merged rows, the others
\* the rows read, and the merged rows of the provider are those of its
\* provider among the merged canonical rows.
MirroredOnceWritten ==
  /\ \A ix \in 1..6 :
       files[Target(run.provider, ix)] = IF ix < writeIx THEN upserted[ix].rows ELSE existing[ix]
  /\ \A k \in 1..3 :
       /\ upserted[k + 3].rows = OfProvider(upserted[k].rows, run.provider)
       /\ \A p \in Providers \ {run.provider} :
            files[<<"provider", p, Kinds[k]>>] = OfProvider(upserted[k].rows, p)

MirrorKept == IF pc = "write" THEN MirroredOnceWritten ELSE Mirrored

RowsOf(parsed, k) ==
  CASE k = 1 -> parsed.conversations
    [] k = 2 -> parsed.messages
    [] k = 3 -> parsed.attachments

Blank(row, field) == IF field = "" THEN row ELSE [row EXCEPT ![field] = <<>>]

BlankRows(rows, fields) == [i \in 1..Len(rows) |-> Blank(rows[i], fields[i])]

\* The data root after a first run that imported the rows `parsed` of an
\* export of `provider` without an error.
Imported(provider, parsed) ==
  /\ files = [f \in FileNames |->
                IF f[1] = "canonical" \/ f[2] = provider
                THEN Upsert(f[Len(f)], <<>>,
                            CASE f[Len(f)] = "conversations" -> parsed.conversations
                              [] f[Len(f)] = "messages" -> parsed.messages
                              [] f[Len(f)] = "attachments" -> parsed.attachments,
                            1).rows
                ELSE <<>>]
  /\ indexes = rebuildMessageIndexes(<<>>, Upsert("messages", <<>>, parsed.messages, 1).rows)
  /\ blobs = {}
  /\ meta = {"schema-version.json", "catalog.json"}

\* Job `jobId` when line 172 has run, with `parsed` as its parse result.
AfterMaterialize(jobId, pkg, parsed) ==
  /\ jobs = jobId
  /\ faults = 0
  /\ pc = "upsert"
  /\ request = pkg
  /\ packageOnDisk = TRUE
  /\ run = [NewRun(jobId, pkg) EXCEPT
              !.status = "MAPPED_CANONICAL_RECORDS",
              !.raw_root_path = Some(SourcePath(pkg.provider, jobId)),
              !.warnings = parsed.warnings]
  /\ error = ""
  /\ extracted = Some([docs |-> pkg.docs, disk |-> pkg.disk])
  /\ parseResult = parsed
  /\ existing = [ix \in 1..6 |-> <<>>]
  /\ upserted = [ix \in 1..6 |-> NoUpsert]
  /\ writeIx = 1
  /\ jobFile = Written(run)
  /\ errorLog = <<>>
  /\ result = NoResult
  /\ suspended = None

WithBlanks(pkg, parsed) ==
  \E c \in [1..Len(parsed.conversations) -> {"", "id"}],
     m \in [1..Len(parsed.messages) -> {"", "id", "conversation_id"}],
     a \in [1..Len(parsed.attachments) -> {"", "id", "message_id"}] :
    AfterMaterialize(2, pkg, [parsed EXCEPT !.conversations = BlankRows(@, c),
                                            !.messages = BlankRows(@, m),
                                            !.attachments = BlankRows(@, a)])

UpsertInit ==
  /\ Imported("chatgpt", parseProviderExport("chatgpt", HiExport.docs, 1))
  /\ \E pkg \in ChatGptPackages : WithBlanks(pkg, parseProviderExport("chatgpt", pkg.docs, 2))

UpsertNext ==
  \/ ReadAndUpsert
  \/ WriteDataset
  \/ Deduped
  \/ Normalize
  \/ Catch

UpsertSpec == UpsertInit /\ [][UpsertNext]_vars

\* What the upsert of file ix would give without the rows that lack a key.
UpsertOfTheRest(ix) ==
  Upsert(Kinds[((ix - 1) % 3) + 1], existing[ix],
         SelectSeq(RowsOf(parseResult, ((ix - 1) % 3) + 1),
                   LAMBDA row : ~MissingKey(Kinds[((ix - 1) % 3) + 1], row)),
         run.job_id)

Rejected(k) ==
  {i \in 1..Len(RowsOf(parseResult, k)) : MissingKey(Kinds[k], RowsOf(parseResult, k)[i])}

\* C19: each of the six upserts counts every incoming row that lacks its id,
\* a message its conversation_id or an attachment its message_id once as
\* failed, and its rows and other counters are those of the upsert of the
\* remaining incoming rows alone; a run with such rows ends NORMALIZED unless
\* an I/O error stops it.
C19_RejectedRowsAreSkipped ==
  /\ (pc = "write" /\ writeIx = 1) =>
       \A ix \in 1..6 :
         /\ upserted[ix].stats.failed = Cardinality(Rejected(((ix - 1) % 3) + 1))
         /\ upserted[ix].rows = UpsertOfTheRest(ix).rows
         /\ upserted[ix].stats =
              [UpsertOfTheRest(ix).stats EXCEPT !.failed = upserted[ix].stats.failed]
  /\ (pc = "done" /\ \E k \in 1..3 : Rejected(k) # {}) =>
       result.status = "NORMALIZED" \/ error = IoError

\* A run has ended NORMALIZED with a message counted as failed and another
\* message of the same payload merged into its stored row.
C19_RejectedAndMerged ==
  /\ pc = "done"
  /\ result.status = "NORMALIZED"
  /\ result.counters.messages.failed = 1
  /\ result.counters.messages.updated + result.counters.messages.unchanged = 1
  /\ result.counters.attachments.failed = 1
  /\ Len(files[<<"canonical", "messages">>]) = 2

\* C20: when a call of runImport is over it has returned a result, the job
\* file holds a record with a terminal status, and a call that met an error
\* has left a FAILED record and returned FAILED.
C20_EndsTerminal ==
  (AtRest /\ jobs > 0) =>
    /\ result.kind = "returned"
    /\ PersistedStatus \in Terminal
    /\ (error # "" \/ result.status = "FAILED") =>
         PersistedStatus = "FAILED" /\ result.status = "FAILED"

\* The first write of the job record, before the try block, has failed: the
\* error has left runImport and no job file says FAILED.
C20_EscapedBeforeTry ==
  /\ pc = "threw"
  /\ run.status = "PACKAGE_SELECTED"
  /\ error = ""
  /\ result.kind = "threw"
  /\ PersistedStatus = ""

\* C21 as stated: a run whose extraction root holds no payload file of its
\* provider ends FAILED with the error of the extractor in the errors of the
\* job record, and never NORMALIZED.
C21_NoPayloadFails ==
  (pc = "done" /\ extracted # None /\ Get(extracted).docs = None) =>
    /\ result.status = "FAILED"
    /\ jobFile.state = "written"
    /\ jobFile.record[1].status = "FAILED"
    /\ jobFile.record[1].errors # <<>>

\* A Claude archive without any JSON document has been imported: the run
\* returned NORMALIZED, with warnings and no error in its job record.
C21_EmptyArchiveNormalized ==
  /\ pc = "done"
  /\ request = EmptyArchive
  /\ extracted = Some([docs |-> None, disk |-> {}])
  /\ result.status = "NORMALIZED"
  /\ jobFile = Written(run)
  /\ run.status = "NORMALIZED"
  /\ run.errors = <<>>
  /\ run.warnings # <<>>

\* The normalized role vocabulary.
Roles == {"user", "assistant", "system", "unknown"}

\* C29 as stated: every message an extractor has returned has a role among
\* user, assistant, system and unknown, whatever the payload says.
C29_RoleIsNormalized ==
  \A i \in 1..Len(parseResult.messages) : parseResult.messages[i].role \in Roles

\* parseClaude has returned the message of a payload whose sender is "human",
\* and the role of the message is "human".
C29_HumanRoleReturned ==
  /\ pc = "materialize"
  /\ run.provider = "claude"
  /\ Get(Get(extracted).docs).conversations[1].messages[1].role = "human"
  /\ parseResult.messages # <<>>
  /\ parseResult.messages[1].role = "human"

\* C28 as stated: in every state of runs executed one at a time, every
\* canonical message names a row of canonical/conversations.ndjson and every
\* canonical attachment names a row of canonical/messages.ndjson.
C28_ReferencesResolve ==
  /\ \A i \in 1..Len(files[<<"canonical", "messages">>]) :
       files[<<"canonical", "messages">>][i].conversation_id
         \in Ids(files[<<"canonical", "conversations">>])
  /\ \A i \in 1..Len(files[<<"canonical", "attachments">>]) :
       files[<<"canonical", "attachments">>][i].message_id
         \in Ids(files[<<"canonical", "messages">>])

\* A second run has ended FAILED in its first dataset write: the conversation
\* file it read a row from is empty, and the message file still holds the
\* messages of that conversation.
C28_MessagesWithoutConversation ==
  /\ pc = "done"
  /\ jobs = 2
  /\ run.status = "FAILED"
  /\ writeIx = 1
  /\ existing[1] # <<>>
  /\ files[<<"canonical", "conversations">>] = <<>>
  /\ files[<<"canonical", "messages">>] = existing[2]
  /\ \E i \in 1..Len(existing[2]) : existing[2][i].conversation_id \in Ids(existing[1])

\* The second call arrived while the first was in progress, and both calls
\* have returned NORMALIZED.
BothNormalized ==
  /\ suspended # None
  /\ pc = "done"
  /\ result.status = "NORMALIZED"
  /\ Get(suspended).pc = "done"
  /\ Get(suspended).result.status = "NORMALIZED"

\* The canonical file and the provider file of every entity hold the records
\* the extractor returned to the call.
PayloadKept(call) ==
  \A k \in 1..3 :
    /\ Ids(RowsOf(call.parseResult, k)) \subseteq Ids(files[<<"canonical", Kinds[k]>>])
    /\ Ids(RowsOf(call.parseResult, k))
         \subseteq Ids(files[<<"provider", call.run.provider, Kinds[k]>>])

\* C26 as stated: when two overlapping runs have both ended NORMALIZED, the
\* canonical and provider datasets hold every record of both payloads.
C26_BothPayloadsKept ==
  BothNormalized => PayloadKept(Call) /\ PayloadKept(Get(suspended))

\* Two overlapping runs of different providers have both ended NORMALIZED
\* without any fault, and canonical/messages.ndjson lacks a message of the
\* run that wrote first.
C26_RecordLost ==
  /\ BothNormalized
  /\ faults = 0
  /\ run.provider # Get(suspended).run.provider
  /\ PayloadKept(Call)
  /\ \E i \in 1..Len(Get(suspended).parseResult.messages) :
       Get(suspended).parseResult.messages[i].id \notin Ids(files[<<"canonical", "messages">>])

\* ------------------------------------------------------ package formats
\* Runs over one ChatGPT export uploaded under each documented file name
\* extension and under one that is not documented.  Only a .zip or a .json
\* package puts a JSON document into the extraction root.

\* README.md, "Upload export package (.zip/.json/.ndjson/.txt/.md)".
DocumentedExtensions == {".zip", ".json", ".ndjson", ".txt", ".md"}

FormatPackages ==
  {Package("chatgpt", ext, TRUE, IF ext \in {".zip", ".json"} THEN HiExport.docs ELSE None, {}) :
     ext \in DocumentedExtensions \cup {".exe"}}

FormatNext ==
  \/ \E pkg \in FormatPackages : StartImport(pkg)
  \/ Validate
  \/ Extract
  \/ Parse
  \/ Materialize
  \/ ReadAndUpsert
  \/ WriteDataset
  \/ Deduped
  \/ Normalize
  \/ Catch

FormatSpec == Init /\ [][FormatNext]_vars

UnsupportedFormat ==
  "Unsupported package format. Please upload .zip, .json, .ndjson, or .txt"

\* C24 as stated: a package named .zip, .json, .ndjson, .txt or .md is never
\* refused for its format, and once the job record is past PACKAGE_VALIDATED
\* its content is under raw/.../extracted; a package of another extension that
\* is on disk ends FAILED with the unsupported-format error, unless an I/O
\* error came first, and no step of its run changes a dataset file.
C24_DocumentedFormatsPass ==
  /\ [](/\ request.ext \in DocumentedExtensions =>
             /\ error # UnsupportedFormat
             /\ run.status \in {"EXTRACTED_TO_RAW", "PARSED_PROVIDER_RECORDS"} => extracted # None
        /\ (request.ext \notin DocumentedExtensions /\ request.exists /\ pc = "done") =>
             /\ result.status = "FAILED"
             /\ error \in {UnsupportedFormat, IoError})
  /\ [][(request'.ext \notin DocumentedExtensions /\ jobs' = jobs) => files' = files]_vars

\* A package named .md has been validated and then refused: the run returned
\* FAILED with the unsupported-format error and nothing was extracted.
C24_MarkdownRefused ==
  /\ pc = "done"
  /\ request.ext = ".md"
  /\ faults = 0
  /\ result.status = "FAILED"
  /\ result.errors = <<UnsupportedFormat>>
  /\ jobFile.record[1].status = "FAILED"
  /\ extracted = None

\* --------------------------------------------------- timestamps in merges
\* Runs over two ChatGPT exports of the same conversation that differ in the
\* create_time of the conversation and of its first message only.

LaterExport ==
  [HiExport EXCEPT
     !.docs = Some([Get(@) EXCEPT !.conversations[1].create_time = Some(Seconds(3)),
                                  !.conversations[1].messages[1].create_time = Some(Seconds(3))])]

DatedPackages == {HiExport, LaterExport}

DatesNext ==
  \/ \E pkg \in DatedPackages : StartImport(pkg)
  \/ Validate
  \/ Extract
  \/ Parse
  \/ Materialize
  \/ ReadAndUpsert
  \/ WriteDataset
  \/ Deduped
  \/ Normalize
  \/ Catch

DatesSpec == Init /\ [][DatesNext]_vars

Earlier(a, b) == IF Get(a) <= Get(b) THEN a ELSE b

\* C25 as stated: when the upserts of a run are computed, a conversation or
\* message that was stored with a created_at and arrives with one is merged
\* into a row whose created_at is the earlier of the two.
C25_EarlierCreatedAtWins ==
  (pc = "write" /\ writeIx = 1) =>
    \A k \in 1..2 :
      \A i \in 1..Len(RowsOf(parseResult, k)) :
        LET next == RowsOf(parseResult, k)[i]
        IN (/\ MapHas(existing[k], next.id)
            /\ MapGet(existing[k], next.id).created_at # None
            /\ next.created_at # None) =>
             MapGet(upserted[k].rows, next.id).created_at
               = Earlier(MapGet(existing[k], next.id).created_at, next.created_at)

\* The second run imported the export with the later timestamps over the rows
\* of the first: the stored message and conversation carry the later
\* created_at, not the one first observed.
C25_LaterCreatedAtStored ==
  /\ pc = "done"
  /\ jobs = 2
  /\ faults = 0
  /\ result.status = "NORMALIZED"
  /\ request = LaterExport
  /\ existing[1][1].created_at = Some(1000)
  /\ existing[2][1].created_at = Some(1000)
  /\ files[<<"canonical", "conversations">>][1].created_at = Some(3000)
  /\ files[<<"canonical", "messages">>][1].created_at = Some(3000)
  /\ files[<<"canonical", "messages">>][1].first_seen_job_id = Some(1)

\* ------------------------------------- a dataset file while it is written
\* writeNdjson hands the whole payload to fs.writeFile, which opens the target
\* itself with O_TRUNC and then writes into it.  Between the two the event
\* loop serves other requests: GET /api/claude/conversations reads
\* provider/claude/*.ndjson with readNdjson.  Here the call of lines 215-221
\* is two steps, and a reader may run in any state.

\* fsx.ts readNdjson: the rows of the lines the file holds now.
readNdjson(name) == files[name]

\* fs.writeFile has opened the target: the file is cut to nothing, and some
\* of the lines may have been written.
WriteOpens ==
  /\ pc = "write"
  /\ LET target == Target(run.provider, writeIx)
     IN \/ /\ \E n \in 0..Len(upserted[writeIx].rows) :
                files' = [files EXCEPT ![target] = SubSeq(writeNdjson(upserted[writeIx].rows), 1, n)]
           /\ pc' = "writing"
           /\ UNCHANGED <<faults, error>>
        \/ /\ faults < MaxFaults
           /\ faults' = faults + 1
           /\ pc' = "catch"
           /\ error' = IoError
           /\ UNCHANGED files
  /\ UNCHANGED <<jobs, suspended, request, packageOnDisk, run, extracted, parseResult, existing,
                 upserted, writeIx, blobs, indexes, meta, jobFile, errorLog, result>>

\* fs.writeFile has written the rest and closed the file, or has failed on
\* the way and left what was written.
WriteCloses ==
  /\ pc = "writing"
  /\ LET target == Target(run.provider, writeIx)
     IN \/ /\ files' = [files EXCEPT ![target] = writeNdjson(upserted[writeIx].rows)]
           /\ writeIx' = writeIx + 1
           /\ pc' = IF writeIx = 6 THEN "deduped" ELSE "write"
           /\ UNCHANGED <<faults, error>>
        \/ /\ faults < MaxFaults
           /\ faults' = faults + 1
           /\ files[target] # writeNdjson(upserted[writeIx].rows)
           /\ pc' = "catch"
           /\ error' = IoError
           /\ UNCHANGED <<files, writeIx>>
  /\ UNCHANGED <<jobs, suspended, request, packageOnDisk, run, extracted, parseResult, existing,
                 upserted, blobs, indexes, meta, jobFile, errorLog, result>>

ReaderNext ==
  \/ \E pkg \in Uploads : StartImport(pkg)
  \/ Validate
  \/ Extract
  \/ Parse
  \/ Materialize
  \/ ReadAndUpsert
  \/ WriteOpens
  \/ WriteCloses
  \/ Deduped
  \/ Normalize
  \/ Catch

ReaderSpec == Init /\ [][ReaderNext]_vars

\* C22 as stated: while a run writes a dataset file, a read of the file gives
\* the whole content it had before the write or the whole content it has
\* after it.
C22_ReadsWholeFile ==
  pc = "writing" =>
    readNdjson(Target(run.provider, writeIx)) \in {existing[writeIx], upserted[writeIx].rows}

\* The second run is writing provider/claude/messages.ndjson: the file had a
\* row before the write, will have a row after it, and holds none now.
C22_ReadsEmptyFile ==
  /\ pc = "writing"
  /\ faults = 0
  /\ Target(run.provider, writeIx) = <<"provider", "claude", "messages">>
  /\ existing[writeIx] # <<>>
  /\ upserted[writeIx].rows # <<>>
  /\ readNdjson(<<"provider", "claude", "messages">>) = <<>>

\* The file materializeBlobs read for the attachment is one of the archive.
ReadInsideRoot(item) ==
  \E f \in Get(extracted).disk :
    /\ f.path = pathJoin(Get(item.local_relpath))
    /\ item.blob_sha256 = Some(sha256(f.bytes))

\* C27 as stated: when materializeBlobs has returned, every attachment it
\* gave a blob was read from a file under the extraction root, whatever its
\* local_relpath, and the blob store of the first job holds the hashes of
\* files of the archive only.
C27_BlobsComeFromTheArchive ==
  pc = "upsert" =>
    /\ \A i \in 1..Len(parseResult.attachments) :
         parseResult.attachments[i].blob_sha256 # None => ReadInsideRoot(parseResult.attachments[i])
    /\ \A blob \in blobs : \E f \in Get(extracted).disk : blob.hash = sha256(f.bytes)

\* An attachment whose path climbs out of the extraction root is embedded: it
\* carries the hash of _mingle/schema-version.json and the blob store holds
\* that file, which is not in the archive.
C27_HostFileInBlobStore ==
  /\ pc = "upsert"
  /\ \E i \in 1..Len(parseResult.attachments) :
       LET item == parseResult.attachments[i]
       IN /\ item.local_relpath = Some(HostPath)
          /\ item.status = "embedded"
          /\ item.blob_sha256 = Some(sha256(<<"{schema:mingle-filesystem}">>))
          /\ \E blob \in blobs : Some(blob.hash) = item.blob_sha256
          /\ ~\E f \in Get(extracted).disk : sha256(f.bytes) = Get(item.blob_sha256)

\* -------------------------------------------------- parseClaude on its own
\* Claude payloads of one conversation record c1, or none, and a flat message
\* list.  The record nests the message m1 with one of two texts and with or
\* without the attachment a1, or two messages without an id that are either
\* equal in role, text and timestamp or differ in text.  The flat list is
\* empty or holds one message m1 or m2 of conversation c1 or of c2, which has
\* no record, with one of three texts and with or without the attachment a2.

RawLink(id) == [RawAttachment(Some(Url), None) EXCEPT !.id = id]

NestedChoices ==
  {<<>>}
    \cup {<<RawConversation(<<RawMessage(<<"m", "1">>, "human", text, atts)>>)>> :
            text \in {T_hi, T_hi_there}, atts \in {<<>>, <<RawLink(<<"a", "1">>)>>}}
    \cup {<<RawConversation(<<RawMessage(<<>>, "human", T_hi, <<>>),
                              RawMessage(<<>>, "human", text, <<>>)>>)>> :
            text \in {T_hi, T_ok}}

FlatChoices ==
  {<<>>}
    \cup {<<[RawMessage(id, "human", text, atts) EXCEPT !.conversation_id = conv]>> :
            id \in {<<"m", "1">>, <<"m", "2">>}, conv \in {<<"c", "1">>, <<"c", "2">>},
            text \in {T_hi, T_hi_there, T_ok}, atts \in {<<>>, <<RawLink(<<"a", "2">>)>>}}

PayloadPackages ==
  {Package("claude", ".zip", TRUE, Some([conversations |-> nested, flat |-> flat]), {}) :
     nested \in NestedChoices, flat \in FlatChoices}

\* The state of job `jobId` when line 156 has run: the package is extracted
\* and the job record says so.
AfterExtract(jobId, pkg) ==
  /\ jobs = jobId
  /\ faults = 0
  /\ pc = "parse"
  /\ request = pkg
  /\ packageOnDisk = TRUE
  /\ run = [NewRun(jobId, pkg) EXCEPT
              !.status = "EXTRACTED_TO_RAW",
              !.raw_root_path = Some(SourcePath(pkg.provider, jobId))]
  /\ error = ""
  /\ extracted = Some([docs |-> pkg.docs, disk |-> pkg.disk])
  /\ parseResult = NoParse
  /\ existing = [ix \in 1..6 |-> <<>>]
  /\ upserted = [ix \in 1..6 |-> NoUpsert]
  /\ writeIx = 1
  /\ files = [f \in FileNames |-> <<>>]
  /\ blobs = {}
  /\ indexes = <<>>
  /\ meta = {"schema-version.json"}
  /\ jobFile = Written(run)
  /\ errorLog = <<>>
  /\ result = NoResult
  /\ suspended = None

ParserInit == \E pkg \in PayloadPackages : AfterExtract(1, pkg)

\* The first job of a data root, from the call of the extractor to line 167.
ParserSpec == ParserInit /\ [][Parse]_vars

\* The extractor has returned for the payload of the request.
ParserReturned == parseResult # NoParse /\ request \in PayloadPackages

\* The returned message `m` is the merge of the nested occurrence `n` and the
\* flat occurrence `f` of the message `id`.
MergeOf(m, n, f, id) ==
  /\ m.text \in {n.text, f.text}
  /\ Len(m.text) >= Len(n.text)
  /\ Len(m.text) >= Len(f.text)
  /\ Elements(OrEmpty(m.attachment_ids))
       = Elements(IdsOf(attachmentsFromMessage(n, id, run.job_id)))
           \cup Elements(IdsOf(attachmentsFromMessage(f, id, run.job_id)))

\* C23: when parseClaude has returned, a message that the payload holds both
\* nested in its conversation and in the flat list, under one canonical id, is
\* returned once, with the longer of the two texts and the union of the
\* attachment ids of both occurrences; no two returned messages share an id,
\* and every returned message names a returned conversation, the synthetic
\* one when its conversation has no record.
C23_NestedAndFlatMerged ==
  ParserReturned =>
    LET export == Get(request.docs)
        returned == parseResult.messages
    IN /\ UniqueIds(returned)
       /\ \A c \in 1..Len(export.conversations) :
            \A i \in 1..Len(export.conversations[c].messages) :
              \A k \in 1..Len(export.flat) :
                LET n == export.conversations[c].messages[i]
                    f == export.flat[k]
                    id == ClaudeMessageId(Trim(export.conversations[c].id), n)
                IN id = ClaudeMessageId(Trim(f.conversation_id), f) =>
                     /\ MapHas(returned, id)
                     /\ MergeOf(MapGet(returned, id), n, f, id)
       /\ \A i \in 1..Len(returned) :
            \E j \in 1..Len(parseResult.conversations) :
              parseResult.conversations[j].id = returned[i].conversation_id

\* The message m1 is nested with the text "hi" and the attachment a1 and flat
\* under the conversation c2, which has no record, with the text "hi there"
\* and the attachment a2: one message is returned, with the flat text and
\* both attachments, and two conversations.
C23_FlatTextAndBothAttachments ==
  /\ ParserReturned
  /\ Len(Get(request.docs).conversations) = 1
  /\ Len(Get(request.docs).flat) = 1
  /\ Get(request.docs).conversations[1].messages[1].id = <<"m", "1">>
  /\ Get(request.docs).conversations[1].messages[1].text = T_hi
  /\ Get(request.docs).flat[1].id = <<"m", "1">>
  /\ Get(request.docs).flat[1].conversation_id = <<"c", "2">>
  /\ Get(request.docs).flat[1].text = T_hi_there
  /\ Len(parseResult.messages) = 1
  /\ parseResult.messages[1].text = T_hi_there
  /\ Len(OrEmpty(parseResult.messages[1].attachment_ids)) = 2
  /\ Len(parseResult.attachments) = 2
  /\ Len(parseResult.conversations) = 2

\* The nested messages of the conversation record `conv` that carry no
\* provider id and have a text, by their position.
IdlessPositions(conv) ==
  {i \in 1..Len(conv.messages) :
     Trim(conv.messages[i].id) = <<>> /\ conv.messages[i].text # <<>>}

\* The returned messages without a provider id.
IdlessReturned ==
  {i \in 1..Len(parseResult.messages) : parseResult.messages[i].provider_message_id = None}

\* C30 as stated: when parseClaude has returned, the messages of a
\* conversation that carry no provider id have got an id each, by their
\* position, and all of them are returned, those that are equal in role, text
\* and timestamp too.
C30_IdlessMessagesAllKept ==
  ParserReturned =>
    \A c \in 1..Len(Get(request.docs).conversations) :
      Cardinality(IdlessReturned) >= Cardinality(IdlessPositions(Get(request.docs).conversations[c]))

\* A conversation nests two messages without an id that are equal in role,
\* text and timestamp; parseClaude returns one message.
C30_EqualMessagesCollapsed ==
  /\ ParserReturned
  /\ Len(Get(request.docs).conversations) = 1
  /\ Get(request.docs).flat = <<>>
  /\ Cardinality(IdlessPositions(Get(request.docs).conversations[1])) = 2
  /\ Get(request.docs).conversations[1].messages[1] = Get(request.docs).conversations[1].messages[2]
  /\ Len(parseResult.messages) = 1

\* The ids of the incoming rows of entity k that the upsert does not reject.
ValidIds(k) ==
  {RowsOf(parseResult, k)[i].id :
     i \in {j \in 1..Len(RowsOf(parseResult, k)) : j \notin Rejected(k)}}

\* Every row of `before` whose id no valid incoming row of the entity of file
\* ix carries is a row of `after`, equal in every field.
Untouched(ix, before, after) ==
  \A i \in 1..Len(before) :
    before[i].id \notin ValidIds(((ix - 1) % 3) + 1) =>
      /\ MapHas(after, before[i].id)
      /\ MapGet(after, before[i].id) = before[i]

\* C31: each of the six upserts returns every existing row whose id is not
\* among the valid incoming rows as it was, provenance included, and when the
\* run has ended NORMALIZED the six files hold these rows as they were read.
C31_OtherRowsUntouched ==
  /\ (pc = "write" /\ writeIx = 1) =>
       \A ix \in 1..6 : Untouched(ix, existing[ix], upserted[ix].rows)
  /\ (pc = "done" /\ result.status = "NORMALIZED") =>
       \A ix \in 1..6 : Untouched(ix, existing[ix], files[Target(run.provider, ix)])

\* The second job has ended NORMALIZED; it rejected the first message of its
\* payload and merged the second: the stored first message carries the
\* provenance of job 1 alone, the stored second message that of both jobs.
C31_RowOfJobOneLeftAlone ==
  /\ pc = "done"
  /\ result.status = "NORMALIZED"
  /\ run.job_id = 2
  /\ Rejected(2) = {1}
  /\ Len(files[<<"canonical", "messages">>]) = 2
  /\ files[<<"canonical", "messages">>][1].last_seen_job_id = Some(1)
  /\ files[<<"canonical", "messages">>][1].source_job_id = 1
  /\ files[<<"canonical", "messages">>][1].seen_in_jobs = Some(<<1>>)
  /\ files[<<"canonical", "messages">>][2].last_seen_job_id = Some(2)

\* seen_in_jobs of the row `id` of `rows`, empty when there is no such row.
SeenBefore(rows, id) ==
  IF MapHas(rows, id) THEN OrEmpty(MapGet(rows, id).seen_in_jobs) ELSE <<>>

\* The row of `after` with the id of a valid incoming row is stamped with
\* job `jobId`: the job is the last to have seen it and is listed after the
\* jobs the row of `before` listed, every job once.
Stamped(before, after, id, jobId) ==
  /\ MapHas(after, id)
  /\ MapGet(after, id).last_seen_job_id = Some(jobId)
  /\ LET seen == OrEmpty(MapGet(after, id).seen_in_jobs)
         prev == SeenBefore(before, id)
     IN /\ Elements(seen) = Elements(prev) \cup {jobId}
        /\ Len(seen) = Cardinality(Elements(seen))
        /\ SubSeq(seen, 1, Len(prev)) = prev

\* C34: in each of the six upserts of job J, every row whose id a valid
\* incoming row carries, counted new, updated or unchanged, has
\* last_seen_job_id = J, and its seen_in_jobs is that of the row read from
\* the file, or empty, plus J, with no job listed twice.
C34_IncomingRowsStamped ==
  (pc = "write" /\ writeIx = 1) =>
    \A ix \in 1..6 :
      \A id \in ValidIds(((ix - 1) % 3) + 1) :
        Stamped(existing[ix], upserted[ix].rows, id, run.job_id)

\* The second job found both messages of its payload in the file; it counts
\* one updated and one unchanged and both rows list job 1 and job 2.
C34_UpdatedAndUnchangedStamped ==
  /\ pc = "write"
  /\ writeIx = 1
  /\ run.job_id = 2
  /\ upserted[2].stats = [ZeroStats EXCEPT !.updated = 1, !.unchanged = 1]
  /\ Len(upserted[2].rows) = 2
  /\ \A i \in 1..2 :
       /\ existing[2][i].seen_in_jobs = Some(<<1>>)
       /\ upserted[2].rows[i].seen_in_jobs = Some(<<1, 2>>)
       /\ upserted[2].rows[i].last_seen_job_id = Some(2)

\* ------------------------------------------------- the counters of an upsert
\* The second job of a data root from line 174 on, as in UpsertSpec, when the
\* first job imported either the export of two messages or the export whose
\* conversation has no message: the incoming rows are found in the file, or
\* are new, or lack a key.

CountInit ==
  \E first \in {HiExport, EmptyConversationExport} :
    /\ Imported("chatgpt", parseProviderExport("chatgpt", first.docs, 1))
    /\ \E pkg \in ChatGptPackages : WithBlanks(pkg, parseProviderExport("chatgpt", pkg.docs, 2))

CountSpec == CountInit /\ [][UpsertNext]_vars

\* C38: in each of the six upserts, new + updated + unchanged + failed is the
\* number of incoming rows, and the number of returned rows is the number of
\* distinct ids among the existing rows plus new.
C38_CountersAddUp ==
  (pc = "write" /\ writeIx = 1) =>
    \A ix \in 1..6 :
      LET stats == upserted[ix].stats
      IN /\ stats.new + stats.updated + stats.unchanged + stats.failed
              = Len(RowsOf(parseResult, ((ix - 1) % 3) + 1))
         /\ Len(upserted[ix].rows) = Cardinality(Ids(existing[ix])) + stats.new

\* Over a dataset of one conversation without messages, the upserts of the
\* second job count the conversation unchanged, one message failed and the
\* other new.
C38_NewFailedAndUnchanged ==
  /\ pc = "write"
  /\ writeIx = 1
  /\ Len(existing[1]) = 1
  /\ existing[2] = <<>>
  /\ upserted[1].stats = [ZeroStats EXCEPT !.unchanged = 1]
  /\ upserted[2].stats = [ZeroStats EXCEPT !.new = 1, !.failed = 1]
  /\ Len(upserted[2].rows) = 1

\* ------------------------------------------------- one export after another
\* The second job of a data root from line 174 on, when both jobs import a
\* ChatGPT export of the conversation c1 with the message m1.  The
\* conversation has no title and no update_time, or the title "t" and the
\* update_time 2 s, or the title "tt" and the update_time 4 s; the message is
\* "hi there" with an attachment, or "hi" without one, or "hi" without a
\* timestamp, or "hi" of the next day.

SequelConversation(title, updateTime, message) ==
  [RawConversation(<<message>>) EXCEPT !.title = title, !.update_time = updateTime]

SequelMessages ==
  {RawMessage(<<"m", "1">>, "user", T_hi_there, <<RawAttachment(Some(Url), None)>>),
   RawMessage(<<"m", "1">>, "user", T_hi, <<>>),
   [RawMessage(<<"m", "1">>, "user", T_hi, <<>>) EXCEPT !.create_time = None],
   [RawMessage(<<"m", "1">>, "user", T_hi, <<>>) EXCEPT !.create_time = Some(Seconds(90000))]}

SequelPackages ==
  {Package("chatgpt", ".json", TRUE,
           Some([conversations |-> <<SequelConversation(head[1], head[2], message)>>,
                 flat |-> <<>>]),
           {}) :
     head \in {<<None, None>>, <<Some(<<"t">>), Some(Seconds(2))>>,
               <<Some(<<"t", "t">>), Some(Seconds(4))>>},
     message \in SequelMessages}

SequelInit ==
  \E first \in SequelPackages, second \in SequelPackages :
    /\ Imported("chatgpt", parseProviderExport("chatgpt", first.docs, 1))
    /\ AfterMaterialize(2, second, parseProviderExport("chatgpt", second.docs, 2))

SequelSpec == SequelInit /\ [][UpsertNext]_vars

\* The later of two optional timestamps that are both there.
Later(a, b) == IF Get(a) >= Get(b) THEN a ELSE b

\* C37: when the upserts of a run are computed, a conversation that is in the
\* file and arrives again is merged into a row whose updated_at is the later
\* of the two when both rows have one, and the stored one when the incoming
\* row has none.
C37_LaterUpdatedAtWins ==
  (pc = "write" /\ writeIx = 1) =>
    \A ix \in {1, 4} :
      \A i \in 1..Len(parseResult.conversations) :
        LET next == parseResult.conversations[i]
        IN (~MissingKey("conversations", next) /\ MapHas(existing[ix], next.id)) =>
             LET prev == MapGet(existing[ix], next.id)
                 merged == MapGet(upserted[ix].rows, next.id)
             IN /\ (prev.updated_at # None /\ next.updated_at # None) =>
                     merged.updated_at = Later(prev.updated_at, next.updated_at)
                /\ next.updated_at = None => merged.updated_at = prev.updated_at

\* A conversation stored with updated_at = 4000 ms arrives with 2000 ms and
\* keeps 4000 ms.
C37_OlderUpdateArrived ==
  /\ pc = "write"
  /\ writeIx = 1
  /\ Len(existing[1]) = 1
  /\ existing[1][1].updated_at = Some(4000)
  /\ parseResult.conversations[1].updated_at = Some(2000)
  /\ upserted[1].rows[1].updated_at = Some(4000)

\* The row of a file before a step and the row of the same id after it.
SameRow(f, i, j) == files'[f][j].id = files[f][i].id

\* C35: in every step of a run, a canonical or provider message that is in
\* its file before and after keeps a text at least as long as it was and
\* every attachment id it held, and a conversation that is in its file before
\* and after keeps a title at least as long as it was.
C35_TextAndTitleNeverShrink ==
  [][/\ \A f \in {g \in FileNames : g[Len(g)] = "messages"} :
          \A i \in 1..Len(files[f]) :
            \A j \in 1..Len(files'[f]) :
              SameRow(f, i, j) =>
                /\ Len(files'[f][j].text) >= Len(files[f][i].text)
                /\ Elements(OrEmpty(files[f][i].attachment_ids))
                     \subseteq Elements(OrEmpty(files'[f][j].attachment_ids))
     /\ \A f \in {g \in FileNames : g[Len(g)] = "conversations"} :
          \A i \in 1..Len(files[f]) :
            \A j \in 1..Len(files'[f]) :
              SameRow(f, i, j) =>
                Len(OrEmpty(files'[f][j].title)) >= Len(OrEmpty(files[f][i].title))]_vars

\* The second job has ended NORMALIZED; it imported the conversation without
\* a title and the message "hi" without an attachment over a dataset that
\* held the title "tt" and the message "hi there" with its attachment, and
\* the dataset still holds these.
C35_ShorterExportArrived ==
  /\ pc = "done"
  /\ result.status = "NORMALIZED"
  /\ parseResult.conversations[1].title = None
  /\ parseResult.messages[1].text = T_hi
  /\ OrEmpty(parseResult.messages[1].attachment_ids) = <<>>
  /\ existing[1][1].title = Some(<<"t", "t">>)
  /\ existing[2][1].text = T_hi_there
  /\ files[<<"canonical", "conversations">>][1].title = Some(<<"t", "t">>)
  /\ files[<<"canonical", "messages">>][1].text = T_hi_there
  /\ Len(OrEmpty(files[<<"canonical", "messages">>][1].attachment_ids)) = 1

\* The by-date partition of a message: the UTC calendar day of its
\* created_at, counted in days, or "unknown".
DayOf(row) ==
  IF row.created_at = None THEN "unknown" ELSE ToString(Get(row.created_at) \div 86400000)

\* The row is in the partition file `part` of the indexes.
Indexed(row, part) ==
  /\ part \in DOMAIN indexes
  /\ \E i \in 1..Len(indexes[part]) : indexes[part][i] = row

ChangedFile == [path |-> AssetPath, bytes |-> <<"other">>]

AttachmentPackages ==
  ClaudePackages \cup {ClaudePackage(RawAttachment(None, Some(AssetPath)), {ChangedFile})}

AttachmentNext ==
  \/ \E pkg \in AttachmentPackages : StartImport(pkg)
  \/ Validate
  \/ Extract
  \/ Parse
  \/ Materialize
  \/ ReadAndUpsert
  \/ WriteDataset
  \/ Deduped
  \/ Normalize
  \/ Catch

AttachmentSpec == Init /\ [][AttachmentNext]_vars

\* C33: in every state of runs executed one at a time, every row of
\* canonical/attachments.ndjson with storage = blob has a blob_sha256 and the
\* blob store holds a file of that hash.
C33_BlobRowsHaveTheirBlob ==
  \A i \in 1..Len(files[<<"canonical", "attachments">>]) :
    LET row == files[<<"canonical", "attachments">>][i]
    IN row.storage = "blob" =>
         /\ row.blob_sha256 # None
         /\ \E blob \in blobs : blob.hash = Get(row.blob_sha256)

\* The second job found other bytes in the attachment's file: the canonical
\* row names the new hash and the store holds both blobs.
C33_BlobOfTheSecondJob ==
  /\ pc = "done"
  /\ result.status = "NORMALIZED"
  /\ Len(files[<<"canonical", "attachments">>]) = 1
  /\ files[<<"canonical", "attachments">>][1].storage = "blob"
  /\ files[<<"canonical", "attachments">>][1].seen_in_jobs = Some(<<1, 2>>)
  /\ files[<<"canonical", "attachments">>][1].blob_sha256 = Some(sha256(<<"other">>))
  /\ Cardinality(blobs) = 2

\* --------------------------------------------------- canonicalId on its own
\* One call of canonicalId(prefix, provider, rawId, fallback): `request` holds
\* the arguments and `result` the returned string.  rawId is absent, empty,
\* blank, or an id with or without characters that safe() replaces; the
\* fallback seed is absent, empty or one of two seeds.

IdArguments ==
  [prefix : {"cnv", "msg", "att"},
   provider : Providers,
   rawId : {None, Some(<<>>), Some(<<" ">>), Some(<<" ", " ">>), Some(<<"c", "1">>),
            Some(<<"c", ".", "1">>), Some(<<"c", "_", "1">>), Some(<<"c", " ", "1">>),
            Some(<<" ", "c", "1">>)},
   fallback : {None, Some(<<>>), Some(<<"c", "1", ":", "user", ":", "hi", ":">>),
               Some(<<"c", "1", ":", "user", ":", "ok", ":">>)}]

IdInit ==
  /\ request \in IdArguments
  /\ pc = "canonicalId"
  /\ result = NoResult
  /\ jobs = 0
  /\ faults = 0
  /\ packageOnDisk = FALSE
  /\ run = NewRun(0, Package("chatgpt", ".json", FALSE, None, {}))
  /\ error = ""
  /\ extracted = None
  /\ parseResult = NoParse
  /\ existing = [ix \in 1..6 |-> <<>>]
  /\ upserted = [ix \in 1..6 |-> NoUpsert]
  /\ writeIx = 1
  /\ files = [f \in FileNames |-> <<>>]
  /\ blobs = {}
  /\ indexes = <<>>
  /\ meta = {}
  /\ jobFile = Absent
  /\ errorLog = <<>>
  /\ suspended = None

CallCanonicalId ==
  /\ pc = "canonicalId"
  /\ result' = [kind |-> "returned",
                id |-> canonicalId(request.prefix, request.provider, request.rawId,
                                   request.fallback)]
  /\ pc' = "done"
  /\ UNCHANGED <<jobs, faults, request, packageOnDisk, run, error, extracted, parseResult,
                 existing, upserted, writeIx, files, blobs, indexes, meta, jobFile, errorLog,
                 suspended>>

IdSpec == IdInit /\ [][CallCanonicalId]_vars

\* mb_<provider>_<prefix>_ before the id proper.
IdHead == <<"mb_", request.provider, "_", request.prefix, "_">>

\* C32 as stated: the id canonicalId returns for a rawId that is a non-empty
\* string, one of blanks only included, is the head followed by rawId with
\* every character outside [A-Za-z0-9_-] replaced by "_"; for a rawId that is
\* absent or empty it is the head followed by the hash of the fallback seed,
\* of "missing" when there is no seed.
C32_NonEmptyRawIdIsUsed ==
  pc = "done" =>
    IF request.rawId # None /\ Get(request.rawId) # <<>>
    THEN result.id =
           IdHead \o [i \in 1..Len(Get(request.rawId)) |->
                        IF Get(request.rawId)[i] \in SafeChars THEN Get(request.rawId)[i] ELSE "_"]
    ELSE result.id =
           IdHead \o sha256(IF Truthy(request.fallback) THEN Get(request.fallback)
                            ELSE <<"missing">>)

\* canonicalId was called with the rawId " " and has returned the hash of
\* the fallback seed.
C32_BlankRawIdHashed ==
  /\ pc = "done"
  /\ request.rawId = Some(<<" ">>)
  /\ request.fallback = Some(<<"c", "1", ":", "user", ":", "hi", ":">>)
  /\ result.id = IdHead \o sha256(<<"c", "1", ":", "user", ":", "hi", ":">>)

\* ------------------------------------------- provider ids that look alike
\* The first import of a ChatGPT export of two conversations with one message
\* each.  The ids of the conversations are "c1", "c.1", "c_1" or "c 1", the
\* first message has the id "m_1" and the second "m_1", "m.1" or "m2".

NeighbourIds == {<<"c", "1">>, <<"c", ".", "1">>, <<"c", "_", "1">>, <<"c", " ", "1">>}

NeighbourConversation(id, messageId, text) ==
  [RawConversation(<<RawMessage(messageId, "user", text, <<>>)>>) EXCEPT !.id = id]

NeighbourPackages ==
  {Package("chatgpt", ".json", TRUE,
           Some([conversations |->
                   <<NeighbourConversation(first, <<"m", "_", "1">>, T_hi),
                     NeighbourConversation(second, messageId, T_ok)>>,
                 flat |-> <<>>]),
           {}) :
     first \in NeighbourIds, second \in NeighbourIds,
     messageId \in {<<"m", "_", "1">>, <<"m", ".", "1">>, <<"m", "2">>}}

NeighbourInit ==
  \E pkg \in NeighbourPackages :
    /\ AfterMaterialize(1, pkg, parseProviderExport("chatgpt", pkg.docs, 1))
    /\ files = [f \in FileNames |-> <<>>]
    /\ indexes = <<>>
    /\ blobs = {}
    /\ meta = {"schema-version.json"}

NeighbourSpec == NeighbourInit /\ [][UpsertNext]_vars

\* The provider-native ids of the rows, for conversations and for messages.
NativeIds(rows, field) == {rows[i][field] : i \in 1..Len(rows)}

\* C39: when the upserts of a first import have returned, two conversations
\* of the payload with different provider conversation ids have different
\* canonical ids, two messages with different provider message ids have
\* different canonical ids, and the canonical rows returned are as many as
\* the provider ids of the payload: no two provider records share a row.
C39_DistinctNativeIdsDistinctRows ==
  (pc = "write" /\ writeIx = 1 /\ run.job_id = 1) =>
    /\ \A i, j \in 1..Len(parseResult.conversations) :
         parseResult.conversations[i].provider_conversation_id
             # parseResult.conversations[j].provider_conversation_id
           => parseResult.conversations[i].id # parseResult.conversations[j].id
    /\ \A i, j \in 1..Len(parseResult.messages) :
         parseResult.messages[i].provider_message_id
             # parseResult.messages[j].provider_message_id
           => parseResult.messages[i].id # parseResult.messages[j].id
    /\ Len(upserted[1].rows)
         = Cardinality(NativeIds(parseResult.conversations, "provider_conversation_id"))
    /\ Len(upserted[2].rows)
         = Cardinality(NativeIds(parseResult.messages, "provider_message_id"))

\* The export held the conversations "c.1" and "c_1" with the messages "m_1"
\* and "m.1": the first import has ended NORMALIZED with one conversation
\* row, of provider id "c.1" and seen once, and one message row whose text is
\* that of the second message.
C39_TwoConversationsOneRow ==
  /\ pc = "done"
  /\ result.status = "NORMALIZED"
  /\ Len(parseResult.conversations) = 2
  /\ parseResult.conversations[1].provider_conversation_id = <<"c", ".", "1">>
  /\ parseResult.conversations[2].provider_conversation_id = <<"c", "_", "1">>
  /\ parseResult.messages[2].provider_message_id = Some(<<"m", ".", "1">>)
  /\ Len(files[Target("chatgpt", 1)]) = 1
  /\ files[Target("chatgpt", 1)][1].id = <<"mb_", "chatgpt", "_", "cnv", "_", "c", "_", "1">>
  /\ Len(files[Target("chatgpt", 2)]) = 1
  /\ files[Target("chatgpt", 2)][1].text = T_ok

\* ------------------------------------------------ automation/claude-browser.ts
\* The browser session of the Claude export page.  The module keeps two
\* variables, activeSession and startPromise; startClaudeAutomation gives way
\* at six awaits (bringToFront, mkdir, launchPersistentContext, the
\* initialization, context.close, and the promise of another call) and
\* stopClaudeAutomation at one.  Under AutomationSpec the state of this module
\* is held by five of the variables declared above, named here as the source
\* names them; `faults` counts the rejections of mkdir, of the launch and of
\* the initialization.  A persistent context opens with a page, so line 157
\* takes context.pages()[0].

activeSession == extracted     \* no session, or the session of lines 159-166
startPromise == suspended      \* no promise, or the call whose promise it is
contexts == errorLog           \* the contexts launched so far: open, closed or gone
calls == request               \* the calls of startClaudeAutomation
stopCall == result             \* the call of stopClaudeAutomation

MaxCalls == 3

Callers == 1..MaxCalls

NoCall == [pc |-> "idle", via |-> "", promise |-> 0, context |-> 0, returned |-> None]

Rejected40 == [kind |-> "error", context |-> 0, state |-> "", reusedSession |-> FALSE]

StatusOf(kind, context, state) ==
  [kind |-> kind, context |-> context, state |-> state, reusedSession |-> FALSE]

toStatus(session) == StatusOf("status", session.context, session.state)

\* Lines 139-150 without lines 148-150: a call that finds no session starts
\* one, whether or not a start is under way.
StartBranch_NoJoin(session, promise) ==
  IF session # None THEN "reuse" ELSE "launch"

\* The way a call takes at lines 139-152.
StartBranch(session, promise) ==
  IF session # None THEN "reuse"
  ELSE IF promise # None THEN "join"
  ELSE "launch"

\* The promise of call c settles with `outcome`: c and the calls that
\* returned this promise have their answer, and line 190 clears startPromise.
Settle(c, outcome) ==
  /\ request' = [k \in Callers |->
                   IF k = c \/ (calls[k].pc = "joined" /\ calls[k].promise = c)
                   THEN [calls[k] EXCEPT !.pc = "done", !.returned = Some(outcome)]
                   ELSE calls[k]]
  /\ suspended' = None

AutomationFrame ==
  UNCHANGED <<jobs, pc, packageOnDisk, run, error, parseResult, existing, upserted, writeIx,
              files, blobs, indexes, meta, jobFile>>

Fails == faults < MaxFaults /\ faults' = faults + 1

AutomationInit ==
  /\ activeSession = None
  /\ startPromise = None
  /\ contexts = <<>>
  /\ calls = [c \in Callers |-> NoCall]
  /\ stopCall = [pc |-> "idle", context |-> 0, state |-> ""]
  /\ faults = 0
  /\ jobs = 0
  /\ pc = "automation"
  /\ packageOnDisk = FALSE
  /\ run = NewRun(0, Package("claude", ".zip", FALSE, None, {}))
  /\ error = ""
  /\ parseResult = NoParse
  /\ existing = [ix \in 1..6 |-> <<>>]
  /\ upserted = [ix \in 1..6 |-> NoUpsert]
  /\ writeIx = 1
  /\ files = [f \in FileNames |-> <<>>]
  /\ blobs = {}
  /\ indexes = <<>>
  /\ meta = {}
  /\ jobFile = Absent

\* startClaudeAutomation up to its first await or its return of startPromise.
StartCall(c) ==
  /\ calls[c].pc = "idle"
  /\ LET branch == StartBranch(activeSession, startPromise)
     IN CASE branch = "reuse" ->
               /\ request' = [calls EXCEPT ![c].pc = "front", ![c].via = "reuse"]
               /\ UNCHANGED suspended
          [] branch = "join" ->
               /\ request' = [calls EXCEPT ![c].pc = "joined", ![c].via = "join",
                                            ![c].promise = Get(startPromise)]
               /\ UNCHANGED suspended
          [] branch = "launch" ->
               /\ request' = [calls EXCEPT ![c].pc = "mkdir", ![c].via = "launch"]
               /\ suspended' = Some(c)
  /\ UNCHANGED <<faults, extracted, errorLog, result>>
  /\ AutomationFrame

\* Lines 140-145 after bringToFront, whose rejection is swallowed: toStatus
\* reads activeSession again and throws a TypeError when it is null by now.
FrontDone(c) ==
  /\ calls[c].pc = "front"
  /\ request' = [calls EXCEPT
                   ![c].pc = "done",
                   ![c].returned =
                     IF activeSession = None THEN Some(Rejected40)
                     ELSE Some([toStatus(Get(activeSession)) EXCEPT !.reusedSession = TRUE])]
  /\ UNCHANGED <<faults, extracted, suspended, errorLog, result>>
  /\ AutomationFrame

\* fs.mkdir of line 154 has settled.
MkdirDone(c) ==
  /\ calls[c].pc = "mkdir"
  /\ \/ /\ request' = [calls EXCEPT ![c].pc = "launch"]
        /\ UNCHANGED <<faults, suspended>>
     \/ /\ Fails
        /\ Settle(c, Rejected40)
  /\ UNCHANGED <<extracted, errorLog, result>>
  /\ AutomationFrame

\* createContext of line 156 has settled; lines 157-173 follow a launch.
LaunchDone(c) ==
  /\ calls[c].pc = "launch"
  /\ \/ /\ errorLog' = Append(contexts, "open")
        /\ extracted' = Some([context |-> Len(contexts) + 1, state |-> "starting"])
        /\ request' = [calls EXCEPT ![c].pc = "init", ![c].context = Len(contexts) + 1]
        /\ UNCHANGED <<faults, suspended>>
     \/ /\ Fails
        /\ Settle(c, Rejected40)
        /\ UNCHANGED <<extracted, errorLog>>
  /\ UNCHANGED result
  /\ AutomationFrame

HoldsContext(session, context) == session # None /\ Get(session).context = context

\* initializeClaudeAutomation of line 176 has settled: it has set the state
\* of the session object, or it has thrown and lines 178-182 run up to the
\* await of context.close.  On a context that is no longer open it may throw
\* without a fault.
InitDone(c) ==
  /\ calls[c].pc = "init"
  /\ \/ \E state \in {"active_login_required", "active_ready"} :
          /\ extracted' = IF HoldsContext(activeSession, calls[c].context)
                          THEN Some([context |-> calls[c].context, state |-> state])
                          ELSE activeSession
          /\ Settle(c, StatusOf("status", calls[c].context, state))
          /\ UNCHANGED faults
     \/ /\ \/ Fails
           \/ contexts[calls[c].context] # "open" /\ UNCHANGED faults
        /\ extracted' = IF HoldsContext(activeSession, calls[c].context)
                        THEN None ELSE activeSession
        /\ request' = [calls EXCEPT ![c].pc = "closing"]
        /\ UNCHANGED suspended
  /\ UNCHANGED <<errorLog, result>>
  /\ AutomationFrame

\* context.close of line 182 has settled and line 183 throws.
CloseDone(c) ==
  /\ calls[c].pc = "closing"
  /\ errorLog' = [contexts EXCEPT ![calls[c].context] = IF @ = "open" THEN "closed" ELSE @]
  /\ Settle(c, Rejected40)
  /\ UNCHANGED <<faults, extracted, result>>
  /\ AutomationFrame

\* The browser window of context k is closed from outside: the handler of
\* lines 169-173 runs.
ContextClosed(k) ==
  /\ k \in 1..Len(contexts)
  /\ contexts[k] = "open"
  /\ errorLog' = [contexts EXCEPT ![k] = "gone"]
  /\ extracted' = IF HoldsContext(activeSession, k) THEN None ELSE activeSession
  /\ UNCHANGED <<faults, suspended, request, result>>
  /\ AutomationFrame

\* stopClaudeAutomation up to its return of line 198 or its await of line 207.
StopCall ==
  /\ stopCall.pc = "idle"
  /\ IF activeSession = None
     THEN /\ result' = [pc |-> "done", context |-> 0, state |-> "idle"]
          /\ UNCHANGED extracted
     ELSE /\ result' = [pc |-> "closing", context |-> Get(activeSession).context, state |-> ""]
          /\ extracted' = None
  /\ UNCHANGED <<faults, suspended, errorLog, request>>
  /\ AutomationFrame

\* context.close of line 207 has settled.
StopClosed ==
  /\ stopCall.pc = "closing"
  /\ errorLog' = [contexts EXCEPT ![stopCall.context] = IF @ = "open" THEN "closed" ELSE @]
  /\ result' = [stopCall EXCEPT !.pc = "done", !.state = "stopped"]
  /\ UNCHANGED <<faults, extracted, suspended, request>>
  /\ AutomationFrame

AutomationNext ==
  \/ \E c \in Callers : StartCall(c)
  \/ \E c \in Callers : FrontDone(c)
  \/ \E c \in Callers : MkdirDone(c)
  \/ \E c \in Callers : LaunchDone(c)
  \/ \E c \in Callers : InitDone(c)
  \/ \E c \in Callers : CloseDone(c)
  \/ \E k \in Callers : ContextClosed(k)
  \/ StopCall
  \/ StopClosed

AutomationSpec == AutomationInit /\ [][AutomationNext]_vars

\* No call of stopClaudeAutomation so far, and no browser window closed from
\* outside.
OnlyStarts ==
  /\ stopCall.pc = "idle"
  /\ \A k \in 1..Len(contexts) : contexts[k] # "gone"

OpenContexts == {k \in 1..Len(contexts) : contexts[k] = "open"}

\* C40: as long as only startClaudeAutomation has been called, in whatever
\* order the calls take their steps, at most one browser context is open and
\* the active session, if there is one, is the session of that context; and
\* when nothing has failed, one context at most has been launched and every
\* call that has returned holds a status of the session of that context.
C40_OneContextOneSession ==
  OnlyStarts =>
    /\ Cardinality(OpenContexts) <= 1
    /\ activeSession # None => OpenContexts = {Get(activeSession).context}
    /\ faults = 0 =>
         /\ Len(contexts) <= 1
         /\ \A c \in Callers :
              calls[c].pc = "done" =>
                /\ Get(calls[c].returned).kind = "status"
                /\ Get(calls[c].returned).context = 1
                /\ contexts[1] = "open"

\* Three calls have returned with nothing failed and no stop: the first
\* launched the one context, the second returned the promise of the first and
\* the third came during the initialization and was answered from the active
\* session; the three hold statuses of context 1.
C40_ThreeCallsOneSession ==
  /\ OnlyStarts
  /\ faults = 0
  /\ Len(contexts) = 1
  /\ \A c \in Callers : calls[c].pc = "done"
  /\ calls[1].via = "launch"
  /\ calls[2].via = "join"
  /\ calls[3].via = "reuse"
  /\ calls[3].returned = Some([StatusOf("status", 1, "starting") EXCEPT !.reusedSession = TRUE])
  /\ calls[2].returned = calls[1].returned
  /\ calls[1].returned = Some(StatusOf("status", 1, "active_ready"))

====
